---- MODULE Spec2Model ----
(***************************************************************************)
(* Model of the deterministic affordability engine of                      *)
(* netlify/functions/elena-agent.js: the APR tier table, the amortization  *)
(* formula, the all-in housing estimate, the verdict classifier, the       *)
(* next-action decision table, the quick rails, the scenario builder with  *)
(* its source precedence, the knowledge loaders with their caches, and the *)
(* handler that assembles the response; of a warm instance on which the    *)
(* handler serves one request after another; of invocations suspended      *)
(* together at the profile lookup; and of the loaders called on their own. *)
(*                                                                         *)
(* JavaScript values are records [t, v]: t is the type tag and v the       *)
(* payload.  Numbers are modelled as exact integers or rationals:          *)
(*   - money inputs and rounded outputs are whole dollars;                 *)
(*   - rates (apr, taxRate) are in units of 1/10000 (0.0675 is 675);       *)
(*   - unrounded monthly amounts inside estimateAllInHousing are in units  *)
(*     of 1/120000 dollar (MoneyUnit), in which price*taxRate/12 and       *)
(*     insuranceAnnual/12 are exact;                                       *)
(*   - Math.pow(1 + r, n) is computed in fixed point with six decimals     *)
(*     (FixOne), rounding to nearest, so the monthly payment agrees with   *)
(*     the double-precision result to about 6 parts in 100000.             *)
(* Every product stays below 2^31 for the inputs drawn here.               *)
(***************************************************************************)
EXTENDS Integers, Sequences, FiniteSets, TLC

VARIABLES fn, args, ret, pc,
          BASICS_CACHE, REALTYSASS_CACHE, STATE_CACHE,
          disk, clock, served

\* The module-level caches of the knowledge files, the data directory, the
\* clock in seconds and the invocations served so far.
knowledge == <<BASICS_CACHE, REALTYSASS_CACHE, STATE_CACHE, disk, clock, served>>

vars == <<fn, args, ret, pc, knowledge>>

(***************************************************************************)
(* JavaScript values and the built-ins the code uses on them               *)
(***************************************************************************)
Null == [t |-> "null", v |-> 0]

Undef == [t |-> "undefined", v |-> 0]

NaN == [t |-> "nan", v |-> 0]

Num(n) == [t |-> "num", v |-> n]

\* n/d as a JavaScript number that is not a whole number, d > 0.
Ratio(n, d) == [t |-> "ratio", n |-> n, d |-> d]

\* A string whose Number() is the whole number n, such as "720".
NumStr(n) == [t |-> "str", v |-> n]

\* A non-empty string whose Number() is NaN, such as "abc".
TextStr == [t |-> "strnan", v |-> 0]

\* The empty string.
EmptyStr == [t |-> "emptystr", v |-> 0]

\* Number.isFinite(x): true only for a finite number (no coercion).
IsFinite(x) == x.t = "num"

\* Number.isFinite(x) for a value that may be a whole number or a fraction.
IsFiniteNumber(x) == x.t \in {"num", "ratio"}

\* The numerator and the denominator (> 0) of a finite number.
Numer(x) == IF x.t = "ratio" THEN x.n ELSE x.v

Denom(x) == IF x.t = "ratio" THEN x.d ELSE 1

\* Number(x): null and "" become 0, undefined becomes NaN, a number is
\* itself, a string is the number it spells or NaN.
ToNumber(x) ==
  CASE x.t \in {"num", "ratio"} -> x
    [] x.t \in {"null", "emptystr"} -> Num(0)
    [] x.t = "str" -> Num(x.v)
    [] OTHER -> NaN

\* Falsy taking every number <= 0 as falsy (mutation of Falsy).
Falsy_NonPositive(x) ==
  x.t \in {"null", "undefined", "nan"} \/ (x.t = "num" /\ x.v <= 0)

\* !x: null, undefined, NaN, "" and 0 are falsy.
Falsy(x) ==
  \/ x.t \in {"null", "undefined", "nan", "emptystr"}
  \/ (x.t = "num" /\ x.v = 0)

\* Math.round that rounds down (mutation).
Round_Down(n, d) == n \div d

\* Math.round(n/d) for d > 0: the nearest integer, halves towards +Infinity.
Round(n, d) == (n + d \div 2) \div d

Max(a, b) == IF a >= b THEN a ELSE b

Min(a, b) == IF a <= b THEN a ELSE b

\* clamp without the lower bound (mutation).
clamp_NoLowerBound(n, lo, hi) == Min(hi, n)

\* clamp without the upper bound (mutation).
clamp_NoUpperBound(n, lo, hi) == Max(lo, n)

\* clamp(n, lo, hi) for a finite n, elena-agent.js 97-100
clamp(n, lo, hi) == Max(lo, Min(hi, n))

\* num(v), elena-agent.js 92-95
num(x) == IF IsFiniteNumber(ToNumber(x)) THEN ToNumber(x) ELSE Null

RECURSIVE pickFirst(_)
\* pickFirst(...vals), elena-agent.js 119-129: the first value that is not
\* undefined, null, "" or a non-finite number; else null.
pickFirst(vals) ==
  IF vals = <<>> THEN Null
  ELSE IF Head(vals).t \in {"undefined", "null", "nan", "emptystr"}
       THEN pickFirst(Tail(vals))
       ELSE Head(vals)

\* hasPositiveMoney(n), elena-agent.js 131-134
hasPositiveMoney(x) == IsFinite(ToNumber(x)) /\ ToNumber(x).v > 0

(***************************************************************************)
(* Finance math                                                            *)
(***************************************************************************)
\* One dollar in the unit of unrounded monthly amounts: 12 months times the
\* 1/10000 unit of rates.
MoneyUnit == 12 * 10000

\* 1.0 in the fixed-point representation of Math.pow's operands.
FixOne == 1000 * 1000

\* x*y in fixed point, rounded to nearest, by three-digit limbs.
MulFix(x, y) ==
  LET xh == x \div 1000
      xl == x % 1000
      yh == y \div 1000
      yl == y % 1000
  IN  xh * yh + ((xh * yl + xl * yh) + ((xl * yl + 500000) \div 1000)) \div 1000

RECURSIVE PowFix(_, _)
\* Math.pow(b, n) for a fixed-point base b and an integer n >= 0.
PowFix(b, n) ==
  IF n = 0 THEN FixOne
  ELSE IF n % 2 = 0
       THEN LET h == PowFix(b, n \div 2) IN MulFix(h, h)
       ELSE MulFix(b, PowFix(b, n - 1))

RECURSIVE LongDiv(_, _, _, _)
\* floor(((q*den + rem) * 10^digits) / den), digit by digit.
LongDiv(q, rem, den, digits) ==
  IF digits = 0 THEN q
  ELSE LongDiv(q * 10 + (rem * 10) \div den, (rem * 10) % den, den, digits - 1)

\* aprTierFromScore with the two top tiers swapped (mutation).
aprTierFromScore_SwappedTiers(score) ==
  LET s == IF IsFinite(score) THEN score ELSE Null
  IN  IF Falsy(s) THEN 700
      ELSE IF s.v >= 780 THEN 675
      ELSE IF s.v >= 740 THEN 625
      ELSE IF s.v >= 700 THEN 725
      ELSE IF s.v >= 660 THEN 800
      ELSE 900

\* aprTierFromScore(score), elena-agent.js 323-331, in units of 1/10000.
aprTierFromScore(score) ==
  LET s == IF IsFinite(score) THEN score ELSE Null
  IN  IF Falsy(s) THEN 700
      ELSE IF s.v >= 780 THEN 625
      ELSE IF s.v >= 740 THEN 675
      ELSE IF s.v >= 700 THEN 725
      ELSE IF s.v >= 660 THEN 800
      ELSE 900

\* pmtMonthlyPI(principal, apr, termYears), elena-agent.js 333-345.
\* principal in dollars, apr in 1/10000, termYears an integer; the result is
\* null or a number of MoneyUnit-ths of a dollar.  With r = apr/12:
\*   principal*(r*pow)/(pow-1) dollars
\*     = principal*apr*pow/(pow-1) / MoneyUnit dollars
\*     = (X + X/(pow-1)) / MoneyUnit dollars, X = principal*apr.
pmtMonthlyPI(principal, apr, termYears) ==
  IF principal <= 0 THEN Null
  ELSE LET n == termYears * 12
           X == principal * apr
       IN  IF n <= 0 THEN Null
           ELSE IF apr <= 0 THEN Num((principal * MoneyUnit) \div n)
           ELSE LET r == (apr * 25 + 1) \div 3
                    pow == PowFix(FixOne + r, n)
                    d == pow - FixOne
                IN  Num(X + LongDiv(X \div d, X % d, d, 6))

\* Failure that gives the same reason for every failure (mutation).
Failure_SameReason(reason) == [ok |-> FALSE, reason |-> "Mortgage estimate failed."]

\* The failure results of estimateAllInHousing, elena-agent.js 375-383.
Failure(reason) == [ok |-> FALSE, reason |-> reason]

\* The success result of estimateAllInHousing, elena-agent.js 397-410, from
\* the unrounded monthly amounts (in MoneyUnit-ths of a dollar).
Estimate(apr, loan, y, pi, taxesMonthly, insMonthly, hoa, used) ==
  [ok |-> TRUE,
   apr_assumed |-> apr,
   loan_amount |-> loan,
   term_years |-> y,
   breakdown |-> [principal_interest |-> Round(pi, MoneyUnit),
                  taxes |-> Round(taxesMonthly, MoneyUnit),
                  insurance |-> Round(insMonthly, MoneyUnit),
                  hoa |-> Round(hoa, MoneyUnit)],
   all_in_monthly |-> Round(pi + taxesMonthly + insMonthly + hoa, MoneyUnit),
   assumptions_used |-> used]

\* estimateAllInHousing({price, downpayment, creditScore, termYears, taxRate,
\* insuranceAnnual, hoaMonthly}), elena-agent.js 361-411.
estimateAllInHousing(a) ==
  LET P == ToNumber(a.price)
      D == ToNumber(a.downpayment)
      s == ToNumber(a.creditScore)
      y == IF IsFinite(a.termYears) THEN a.termYears.v ELSE 30
  IN  IF ~IsFinite(P) \/ P.v <= 0 THEN Failure("Missing or invalid price.")
      ELSE IF ~IsFinite(D) \/ D.v < 0 THEN Failure("Missing or invalid downpayment.")
      ELSE IF ~IsFinite(s) \/ s.v < 300 \/ s.v > 850
           THEN Failure("Missing or invalid creditScore.")
      ELSE LET loan == Max(0, P.v - D.v)
               apr == aprTierFromScore(s)
               pi == pmtMonthlyPI(loan, apr, y)
           IN  IF ~IsFinite(pi) \/ pi.v <= 0 THEN Failure("Unable to compute P&I.")
               ELSE LET used == [taxRate |-> IF IsFinite(a.taxRate)
                                             THEN a.taxRate.v ELSE 200,
                                 insuranceAnnual |-> IF IsFinite(a.insuranceAnnual)
                                                     THEN a.insuranceAnnual.v ELSE 2400,
                                 hoaMonthly |-> IF IsFinite(a.hoaMonthly)
                                                THEN a.hoaMonthly.v ELSE 0]
                    IN  Estimate(apr, loan, y, pi.v,
                                 P.v * used.taxRate,
                                 used.insuranceAnnual * 10000,
                                 used.hoaMonthly * MoneyUnit,
                                 used)

\* stateDefaults?.field, elena-agent.js 851-857: undefined when there are no
\* state defaults.
DefaultOf(stateDefaults, field) ==
  IF stateDefaults.t = "object" THEN stateDefaults.v[field] ELSE Undef

\* AcceptEstimate without the positive-amount check (mutation).
AcceptEstimate_NoPositiveCheck(m) ==
  IF m.ok
  THEN [mortgage |-> m, mortgageSource |-> "deterministic_estimate"]
  ELSE [mortgage |-> Failure(m.reason),
        mortgageSource |-> "deterministic_estimate:failed"]

\* The mortgage the handler keeps, elena-agent.js 869-875: the estimate when
\* it is ok with a positive all-in amount, else a failure record.
AcceptEstimate(m) ==
  IF m.ok /\ hasPositiveMoney(Num(m.all_in_monthly))
  THEN [mortgage |-> m, mortgageSource |-> "deterministic_estimate"]
  ELSE [mortgage |-> Failure(IF m.ok THEN "Mortgage estimate failed." ELSE m.reason),
        mortgageSource |-> "deterministic_estimate:failed"]

\* The handler's mortgage stage, elena-agent.js 842-880, from the scenario
\* fields and the state file's defaults.  mortgage is Null when the stage
\* does not run the estimator.
mortgageStage(sc, stateDefaults) ==
  LET taxRate == pickFirst(<<sc.taxRate, DefaultOf(stateDefaults, "tax_rate"),
                             DefaultOf(stateDefaults, "property_tax_rate")>>)
      insuranceAnnual == pickFirst(<<sc.insuranceAnnual,
                                     DefaultOf(stateDefaults, "insurance_annual"),
                                     DefaultOf(stateDefaults, "homeowners_insurance_annual")>>)
      hoaMonthly == pickFirst(<<sc.hoaMonthly, DefaultOf(stateDefaults, "hoa_monthly")>>)
      st == IF IsFinite(sc.price) /\ IsFinite(sc.downpayment) /\ IsFinite(sc.creditScore)
            THEN AcceptEstimate(estimateAllInHousing(
                   [price |-> sc.price, downpayment |-> sc.downpayment,
                    creditScore |-> sc.creditScore, termYears |-> sc.termYears,
                    taxRate |-> num(taxRate), insuranceAnnual |-> num(insuranceAnnual),
                    hoaMonthly |-> num(hoaMonthly)]))
            ELSE [mortgage |-> Null, mortgageSource |-> "insufficient_inputs_for_mortgage"]
  IN  [mortgage |-> st.mortgage,
       mortgageSource |-> st.mortgageSource,
       housingAllIn |-> IF st.mortgage # Null /\ st.mortgage.ok
                        THEN num(Num(st.mortgage.all_in_monthly)) ELSE Null]

(***************************************************************************)
(* Verdict engine and next action                                          *)
(***************************************************************************)
\* n/d <= p/100 for d # 0.
RatioAtMost(n, d, p) == IF d > 0 THEN n * 100 <= p * d ELSE n * 100 >= p * d

\* listMissingInputs that never lists the credit score (mutation).
listMissingInputs_NoCreditScore(a) ==
  (IF ~IsFinite(a.income) THEN <<"income">> ELSE <<>>)
  \o (IF ~IsFinite(a.expenses) THEN <<"expenses">> ELSE <<>>)
  \o (IF ~IsFinite(a.housingAllIn) \/ a.housingAllIn.v <= 0
      THEN (IF ~IsFinite(a.price) THEN <<"price">> ELSE <<>>)
           \o (IF ~IsFinite(a.downpayment) THEN <<"downpayment">> ELSE <<>>)
      ELSE <<>>)

\* listMissingInputs that never lists the expenses (mutation).
listMissingInputs_NoExpenses(a) ==
  (IF ~IsFinite(a.income) THEN <<"income">> ELSE <<>>)
  \o (IF ~IsFinite(a.housingAllIn) \/ a.housingAllIn.v <= 0
      THEN (IF ~IsFinite(a.price) THEN <<"price">> ELSE <<>>)
           \o (IF ~IsFinite(a.downpayment) THEN <<"downpayment">> ELSE <<>>)
           \o (IF ~IsFinite(a.creditScore) THEN <<"creditScore">> ELSE <<>>)
      ELSE <<>>)

\* listMissingInputs({income, expenses, creditScore, downpayment, price,
\* housingAllIn}), elena-agent.js 540-551
listMissingInputs(a) ==
  (IF ~IsFinite(a.income) THEN <<"income">> ELSE <<>>)
  \o (IF ~IsFinite(a.expenses) THEN <<"expenses">> ELSE <<>>)
  \o (IF ~IsFinite(a.housingAllIn) \/ a.housingAllIn.v <= 0
      THEN (IF ~IsFinite(a.price) THEN <<"price">> ELSE <<>>)
           \o (IF ~IsFinite(a.downpayment) THEN <<"downpayment">> ELSE <<>>)
           \o (IF ~IsFinite(a.creditScore) THEN <<"creditScore">> ELSE <<>>)
      ELSE <<>>)

\* VerdictStatus without the negative-residual branch (mutation).
VerdictStatus_NoResidualCheck(inc, residual, hou) ==
  IF hou * 100 > inc * 30
  THEN [status |-> "NO-GO", notes |-> <<"Housing cost exceeds the 30% housing cap.">>]
  ELSE IF residual * 100 < inc * 5
  THEN [status |-> "CAUTION", notes |-> <<"Buffer is thin after expenses + housing.">>]
  ELSE [status |-> "GREEN", notes |-> <<>>]

\* VerdictStatus without the housing-cap branch (mutation).
VerdictStatus_NoCapCheck(inc, residual, hou) ==
  IF residual < 0
  THEN [status |-> "NO-GO",
        notes |-> <<"Residual income is negative after expenses + housing.">>]
  ELSE IF residual * 100 < inc * 5
  THEN [status |-> "CAUTION", notes |-> <<"Buffer is thin after expenses + housing.">>]
  ELSE [status |-> "GREEN", notes |-> <<>>]

\* The status chain of computeVerdict, elena-agent.js 591-603, for a truthy
\* income and a positive housing cost: the status and its note.
VerdictStatus(inc, residual, hou) ==
  IF residual < 0
  THEN [status |-> "NO-GO",
        notes |-> <<"Residual income is negative after expenses + housing.">>]
  ELSE IF hou * 100 > inc * 30
  THEN [status |-> "NO-GO", notes |-> <<"Housing cost exceeds the 30% housing cap.">>]
  ELSE IF residual * 100 < inc * 5
  THEN [status |-> "CAUTION", notes |-> <<"Buffer is thin after expenses + housing.">>]
  ELSE [status |-> "GREEN", notes |-> <<>>]

\* VerdictGrade with the A- ratio threshold at 0.30 (mutation).
VerdictGrade_LooseAMinus(status, inc, residual, hou) ==
  IF status = "NO-GO" THEN "D"
  ELSE IF status = "CAUTION" THEN "C+"
  ELSE IF RatioAtMost(hou, inc, 25) /\ residual * 100 >= inc * 12 THEN "A"
  ELSE IF RatioAtMost(hou, inc, 30) /\ residual * 100 >= inc * 5 THEN "A-"
  ELSE "B"

\* The grade of computeVerdict, elena-agent.js 605-613.
VerdictGrade(status, inc, residual, hou) ==
  IF status = "NO-GO" THEN "D"
  ELSE IF status = "CAUTION" THEN "C+"
  ELSE IF RatioAtMost(hou, inc, 25) /\ residual * 100 >= inc * 12 THEN "A"
  ELSE IF RatioAtMost(hou, inc, 28) /\ residual * 100 >= inc * 5 THEN "A-"
  ELSE IF RatioAtMost(hou, inc, 30) /\ residual * 100 >= inc * 5 THEN "B+"
  ELSE "B"

\* The verdict for a missing income, elena-agent.js 561-570.
MissingIncomeVerdict ==
  [status |-> "INSUFFICIENT",
   grade |-> "N/A",
   housingCap |-> Null,
   ratios |-> [housingRatio |-> Null, expenseRatio |-> Null],
   residual |-> Null,
   notes |-> <<"Missing income; cannot compute affordability rails.">>]

\* MissingHousingVerdict that reports no housing cap (mutation).
MissingHousingVerdict_NoCap(inc, exp) ==
  [status |-> "INSUFFICIENT",
   grade |-> "N/A",
   housingCap |-> Null,
   ratios |-> [housingRatio |-> Null, expenseRatio |-> Ratio(exp, inc)],
   residual |-> Null,
   notes |-> <<"Missing housing estimate; using cap + quick rails only.">>]

\* The verdict for a missing housing estimate, elena-agent.js 572-583.
MissingHousingVerdict(inc, exp) ==
  [status |-> "INSUFFICIENT",
   grade |-> "N/A",
   housingCap |-> Num(Round(inc * 30, 100)),
   ratios |-> [housingRatio |-> Null, expenseRatio |-> Ratio(exp, inc)],
   residual |-> Null,
   notes |-> <<"Missing housing estimate; using cap + quick rails only.">>]

\* computeVerdict({income, expenses, housingAllIn}), elena-agent.js 556-623
computeVerdict(a) ==
  LET inc == IF IsFinite(a.income) THEN a.income ELSE Null
      exp == IF IsFinite(a.expenses) THEN a.expenses.v ELSE 0
      hou == IF IsFinite(a.housingAllIn) /\ a.housingAllIn.v > 0
             THEN a.housingAllIn ELSE Null
  IN  IF Falsy(inc) THEN MissingIncomeVerdict
      ELSE IF Falsy(hou) THEN MissingHousingVerdict(inc.v, exp)
      ELSE LET residual == inc.v - exp - hou.v
               st == VerdictStatus(inc.v, residual, hou.v)
           IN  [status |-> st.status,
                grade |-> VerdictGrade(st.status, inc.v, residual, hou.v),
                housingCap |-> Num(Round(inc.v * 30, 100)),
                ratios |-> [housingRatio |-> Ratio(hou.v, inc.v),
                            expenseRatio |-> Ratio(exp, inc.v)],
                residual |-> Num(residual),
                notes |-> st.notes]

\* A JavaScript array.
Array(seq) == [t |-> "array", v |-> seq]

\* roundTo that rounds down (mutation).
roundTo_Down(n, d, step) == (n \div (d * step)) * step

\* roundTo(n/d, step) for d > 0, elena-agent.js 102-105
roundTo(n, d, step) == Round(n, d * step) * step

\* NoGoAction without the checks of price (mutation).
NoGoAction_NoPriceCheck(verdict, price, housingAllIn) ==
  IF /\ IsFinite(housingAllIn)
     /\ housingAllIn.v > 0
     /\ IsFinite(verdict.housingCap)
  THEN LET cap == verdict.housingCap.v
           targetPrice == roundTo(price.v * cap, housingAllIn.v, 1000)
       IN  [type |-> "lower_price",
            target |-> [current_price |-> price.v,
                        target_price |-> Max(0, targetPrice),
                        target_housing_cap |-> cap]]
  ELSE [type |-> "adjust_scenario", target |-> Null]

\* NoGoAction with the comparison of the price reversed (mutation).
NoGoAction_ReversedPriceCheck(verdict, price, housingAllIn) ==
  IF /\ IsFinite(price)
     /\ price.v < 0
     /\ IsFinite(housingAllIn)
     /\ housingAllIn.v > 0
     /\ IsFinite(verdict.housingCap)
  THEN LET cap == verdict.housingCap.v
           targetPrice == roundTo(price.v * cap, housingAllIn.v, 1000)
       IN  [type |-> "lower_price",
            target |-> [current_price |-> price.v,
                        target_price |-> Max(0, targetPrice),
                        target_housing_cap |-> cap]]
  ELSE [type |-> "adjust_scenario", target |-> Null]

\* The NO-GO branch of pickNextAction, elena-agent.js 641-669.
NoGoAction(verdict, price, housingAllIn) ==
  IF /\ IsFinite(price)
     /\ price.v > 0
     /\ IsFinite(housingAllIn)
     /\ housingAllIn.v > 0
     /\ IsFinite(verdict.housingCap)
  THEN LET cap == verdict.housingCap.v
           targetPrice == roundTo(price.v * cap, housingAllIn.v, 1000)
       IN  [type |-> "lower_price",
            target |-> [current_price |-> price.v,
                        target_price |-> Max(0, targetPrice),
                        target_housing_cap |-> cap]]
  ELSE [type |-> "adjust_scenario", target |-> Null]

\* pickNextAction({verdict, missing_inputs, price, housingAllIn}),
\* elena-agent.js 625-684.  verdict is Null or a verdict record;
\* missing_inputs is an array or a null value.
pickNextAction(a) ==
  IF a.verdict = Null \/ a.verdict.status = "INSUFFICIENT"
  THEN IF a.missing_inputs.t = "array" /\ Len(a.missing_inputs.v) # 0
       THEN [type |-> "collect_missing_inputs",
             target |-> [missing |-> a.missing_inputs.v]]
       ELSE [type |-> "collect_missing_inputs", target |-> Null]
  ELSE IF a.verdict.status = "NO-GO"
  THEN NoGoAction(a.verdict, a.price, a.housingAllIn)
  ELSE IF a.verdict.status = "CAUTION"
  THEN [type |-> "increase_buffer", target |-> Null]
  ELSE [type |-> "lock_in_plan", target |-> Null]

(***************************************************************************)
(* Quick rails                                                             *)
(***************************************************************************)
RECURSIVE GCD(_, _)
\* The greatest common divisor of a >= 0 and b >= 0, not both 0.
GCD(a, b) == IF b = 0 THEN a ELSE GCD(b, a % b)

\* principalFromPmt(targetPI, apr, termYears), elena-agent.js 347-359, for
\* targetPI = tn/td dollars (td > 0), apr in 1/10000 and termYears an
\* integer; the result is null or a number of thousandths of a dollar,
\* rounded down.  With r = apr/12 and f = (pow-1)/pow = 1 - 1/pow in fixed
\* point:
\*   targetPI*(pow-1)/(r*pow) dollars = tn*f*120/(td*apr) thousandths.
principalFromPmt(tn, td, apr, termYears) ==
  IF tn <= 0 THEN Null
  ELSE LET n == termYears * 12
           g == GCD(tn, td)
           t == tn \div g
       IN  IF n <= 0 THEN Null
           ELSE IF apr <= 0
                THEN Num(((t * n) \div (td \div g)) * 1000
                         + (((t * n) % (td \div g)) * 1000) \div (td \div g))
           ELSE LET r == (apr * 25 + 1) \div 3
                    pow == PowFix(FixOne + r, n)
                    f == FixOne - LongDiv(FixOne \div pow, FixOne % pow, pow, 6)
                    K == f * 120
                    D == (td \div g) * apr
                IN  Num(t * (K \div D) + (t * (K % D)) \div D)

\* PiTargetMonthly without the buffer (mutation).
PiTargetMonthly_NoBuffer(incN, incD, pct, buffer) == Round(incN * pct, incD * 100)

\* pi_target_monthly, elena-agent.js 424 and 432: Math.round of
\* income*housingCapPct/buffer, for income = incN/incD, housingCapPct = pct/100
\* and buffer in hundredths.
PiTargetMonthly(incN, incD, pct, buffer) == Round(incN * pct, incD * buffer)

\* QuickMaxPrice multiplying by 0.95 instead of dividing (mutation).
QuickMaxPrice_Times95(principal0) ==
  IF Falsy(principal0)
  THEN [price_0_down |-> Null, price_5_down |-> Null]
  ELSE [price_0_down |-> Num(Round(principal0.v, 1000)),
        price_5_down |-> Num(Round((principal0.v \div 20) * 19, 1000))]

\* quick_max_price, elena-agent.js 427-428 and 439-442, from principal0 (null
\* or thousandths of a dollar): price0 is principal0, price5 is
\* principal0/0.95, each rounded to whole dollars.
QuickMaxPrice(principal0) ==
  IF Falsy(principal0)
  THEN [price_0_down |-> Null, price_5_down |-> Null]
  ELSE [price_0_down |-> Num(Round(principal0.v, 1000)),
        price_5_down |-> Num(Round(principal0.v, 950))]

\* buildQuickAffordability({income, housingCapPct = 0.30, buffer = 1.28, apr,
\* termYears = 30}), elena-agent.js 413-444.  housingCapPct is in hundredths
\* and so is buffer; apr is in 1/10000.
buildQuickAffordability(a) ==
  LET inc == IF IsFiniteNumber(a.income) THEN a.income ELSE Null
      pct == IF a.housingCapPct = Undef THEN 30 ELSE a.housingCapPct.v
      buffer == IF a.buffer = Undef THEN 128 ELSE a.buffer.v
      termYears == IF a.termYears = Undef THEN Num(30) ELSE a.termYears
  IN  IF inc = Null \/ Numer(inc) = 0 THEN Null
      ELSE LET incN == Numer(inc)
               incD == Denom(inc)
               principal0 ==
                 principalFromPmt(incN * pct, incD * buffer,
                                  IF IsFinite(a.apr) THEN a.apr.v ELSE 700,
                                  IF IsFinite(termYears) THEN termYears.v ELSE 30)
           IN  [housing_cap_monthly |-> Round(incN * pct, incD * 100),
                pi_target_monthly |-> PiTargetMonthly(incN, incD, pct, buffer),
                assumptions |-> [housing_cap_pct |-> pct,
                                 buffer |-> buffer,
                                 apr_assumed |-> IF IsFinite(a.apr) THEN a.apr ELSE Null,
                                 term_years |-> termYears],
                quick_max_price |-> QuickMaxPrice(principal0)]

(***************************************************************************)
(* The scenario of a request                                               *)
(*                                                                         *)
(* A request body is a record of the parts buildScenario reads: overrides  *)
(* and scenario (an absent one reads as an object with no field set), the  *)
(* four places of the snapshot object (null when absent), the question     *)
(* and context.profile, context.state and the normalized email.  An object *)
(* is a function from field names to values.  loanType, a string no        *)
(* arithmetic reads, is left out.                                          *)
(***************************************************************************)
OverrideFields ==
  {"price", "expenses", "downpayment", "income", "creditScore", "termYears",
   "taxRate", "insuranceAnnual", "hoaMonthly", "state", "license_state"}

ScenarioFields ==
  {"price", "homePrice", "expenses", "monthlyExpenses", "downpayment", "dpAmt",
   "income", "monthlyIncome", "creditScore", "score", "termYears", "taxRate",
   "insuranceAnnual", "hoaMonthly", "state"}

FadFields ==
  {"price", "homePrice", "projected_home_price", "housingPrice",
   "expenses", "monthlyExpenses", "monthly_expenses", "expenses_total",
   "downpayment", "dpAmt", "down", "currentSavings", "savings",
   "creditScore", "credit_score", "score", "scoreValue",
   "termYears", "term_years", "term",
   "income", "monthlyIncome", "monthly_income", "totalIncome",
   "taxRate", "tax_rate", "insuranceAnnual", "insurance_annual",
   "hoaMonthly", "hoa_monthly"}

ProfileFields ==
  {"full_name", "income", "monthly_income", "license_state", "state", "market_state"}

\* An object with none of the fields set: reading any of them is undefined.
EmptyObject(fields) == [f \in fields |-> Undef]

\* A question text, by what the two regular expressions of
\* parseHypotheticalCreditScoreFromQuestion find in it: whether it reads as
\* hypothetical, and the three digits captured (null when none are).
Question(looksHypothetical, captured) ==
  [t |-> "string", looksHypothetical |-> looksHypothetical, captured |-> captured]

\* parseHypotheticalCreditScoreFromQuestion(question), elena-agent.js 298-318
parseHypotheticalCreditScoreFromQuestion(question) ==
  IF question = Null THEN Null
  ELSE IF ~question.looksHypothetical THEN Null
  ELSE IF question.captured = Null THEN Null
  ELSE IF question.captured.v < 300 \/ question.captured.v > 850 THEN Null
  ELSE Num(question.captured.v)

RECURSIVE FirstObject(_)
\* a || b || ... || null over values that are null or an object.
FirstObject(objs) ==
  IF objs = <<>> THEN Null
  ELSE IF Head(objs) # Null THEN Head(objs)
  ELSE FirstObject(Tail(objs))

\* readFadSnapshot(body), elena-agent.js 449-473
readFadSnapshot(body) ==
  LET fad == FirstObject(<<body.ctxFad, body.fad, body.fad_snapshot, body.snapshot>>)
  IN  IF fad = Null
      THEN EmptyObject({"price", "expenses", "downpayment", "creditScore", "termYears",
                        "income", "taxRate", "insuranceAnnual", "hoaMonthly"})
      ELSE [price |-> num(pickFirst(<<fad.price, fad.homePrice,
                                      fad.projected_home_price, fad.housingPrice>>)),
            expenses |-> num(pickFirst(<<fad.expenses, fad.monthlyExpenses,
                                         fad.monthly_expenses, fad.expenses_total>>)),
            downpayment |-> num(pickFirst(<<fad.downpayment, fad.dpAmt, fad.down,
                                            fad.currentSavings, fad.savings>>)),
            creditScore |-> num(pickFirst(<<fad.creditScore, fad.credit_score,
                                            fad.score, fad.scoreValue>>)),
            termYears |-> num(pickFirst(<<fad.termYears, fad.term_years, fad.term>>)),
            income |-> num(pickFirst(<<fad.income, fad.monthlyIncome,
                                       fad.monthly_income, fad.totalIncome>>)),
            taxRate |-> num(pickFirst(<<fad.taxRate, fad.tax_rate>>)),
            insuranceAnnual |-> num(pickFirst(<<fad.insuranceAnnual,
                                                fad.insurance_annual>>)),
            hoaMonthly |-> num(pickFirst(<<fad.hoaMonthly, fad.hoa_monthly>>))]

\* v !== undefined && v !== null
IsSet(v) == v.t \notin {"undefined", "null"}

\* The body of a request that sets nothing.
EmptyBody ==
  [overrides |-> EmptyObject(OverrideFields),
   scenario |-> EmptyObject(ScenarioFields),
   ctxFad |-> Null, fad |-> Null, fad_snapshot |-> Null, snapshot |-> Null,
   question |-> Null,
   contextProfile |-> Null,
   ctxState |-> Undef,
   email |-> ""]

\* The credit score and its source, elena-agent.js 488-503.
CreditScoreOf(overrides, fad, scenario, question) ==
  LET creditScoreRaw == num(pickFirst(<<overrides.creditScore, fad.creditScore,
                                        scenario.creditScore, scenario.score>>))
      fromQ == parseHypotheticalCreditScoreFromQuestion(question)
  IN  IF ~Falsy(creditScoreRaw)
      THEN [creditScore |->
              Num(clamp(Round(Numer(creditScoreRaw), Denom(creditScoreRaw)), 300, 850)),
            creditScoreSource |->
              IF IsSet(overrides.creditScore) THEN "overrides"
              ELSE IF IsSet(fad.creditScore) THEN "fad"
              ELSE IF IsSet(scenario.creditScore) THEN "scenario"
              ELSE "scenario/overrides"]
      ELSE IF fromQ # Null
      THEN [creditScore |-> fromQ, creditScoreSource |-> "question_hypothetical"]
      ELSE [creditScore |-> Null, creditScoreSource |-> "missing"]

\* buildScenario(body), elena-agent.js 475-538.  body?.x reads a null body
\* as one that sets nothing.
buildScenario(body) ==
  LET b == IF body = Null THEN EmptyBody ELSE body
      scenario == b.scenario
      overrides == b.overrides
      fad == readFadSnapshot(b)
      cs == CreditScoreOf(overrides, fad, scenario, b.question)
      termYearsRaw == num(pickFirst(<<overrides.termYears, fad.termYears,
                                      scenario.termYears>>))
  IN  [question |-> b.question,
       fad |-> fad,
       contextProfile |-> b.contextProfile,
       price |-> num(pickFirst(<<overrides.price, fad.price, scenario.price,
                                 scenario.homePrice>>)),
       expenses |-> num(pickFirst(<<overrides.expenses, fad.expenses,
                                    scenario.expenses, scenario.monthlyExpenses>>)),
       downpayment |-> num(pickFirst(<<overrides.downpayment, fad.downpayment,
                                       scenario.downpayment, scenario.dpAmt>>)),
       creditScore |-> cs.creditScore,
       creditScoreSource |-> cs.creditScoreSource,
       termYears |-> IF ~Falsy(termYearsRaw)
                     THEN Num(clamp(Round(Numer(termYearsRaw), Denom(termYearsRaw)),
                                    10, 40))
                     ELSE Num(30),
       income |-> num(pickFirst(<<overrides.income, fad.income, scenario.income,
                                  scenario.monthlyIncome>>)),
       taxRate |-> num(pickFirst(<<overrides.taxRate, fad.taxRate, scenario.taxRate>>)),
       insuranceAnnual |-> num(pickFirst(<<overrides.insuranceAnnual,
                                           fad.insuranceAnnual,
                                           scenario.insuranceAnnual>>)),
       hoaMonthly |-> num(pickFirst(<<overrides.hoaMonthly, fad.hoaMonthly,
                                      scenario.hoaMonthly>>))]

(***************************************************************************)
(* Knowledge files and their caches                                        *)
(*                                                                         *)
(* disk is the data directory: disk.basics and disk.realtysass are the     *)
(* parsed file or null when it cannot be read, disk.states maps the keys   *)
(* that have a states-<key>.json to the parsed file.  A parsed file is an  *)
(* object; a state file holds the defaults the mortgage stage reads.       *)
(***************************************************************************)
\* A string that is not read as a number, such as a state name.
Text(str) == [t |-> "string", s |-> str]

\* STATE_ALIASES, elena-agent.js 158-181
STATE_ALIASES ==
  [tx |-> "texas", az |-> "arizona", ca |-> "california", fl |-> "florida",
   ny |-> "new-york", nj |-> "new-jersey", il |-> "illinois", wa |-> "washington",
   or |-> "oregon", co |-> "colorado", nv |-> "nevada", ga |-> "georgia",
   nc |-> "north-carolina", sc |-> "south-carolina", va |-> "virginia",
   md |-> "maryland", pa |-> "pennsylvania"]

\* normalizeStateKey(raw), elena-agent.js 183-195, for a raw string of
\* lower-case letters and hyphens, which the cleaning leaves as it is.
normalizeStateKey(raw) ==
  IF raw = "" THEN ""
  ELSE IF raw \in DOMAIN STATE_ALIASES THEN STATE_ALIASES[raw]
  ELSE raw

\* loadBasics whose cached result carries no data (mutation).
loadBasics_CachedWithoutData(cache, dir) ==
  IF cache # Null
  THEN [load |-> [ok |-> TRUE, data |-> Null, error |-> Null, cached |-> TRUE],
        cache |-> cache]
  ELSE IF dir.basics # Null
  THEN [load |-> [ok |-> TRUE, data |-> dir.basics, error |-> Null, cached |-> FALSE],
        cache |-> dir.basics]
  ELSE [load |-> [ok |-> FALSE, data |-> Null,
                  error |-> Text("Failed to load ask-elena-realestate-basics.json"),
                  cached |-> FALSE],
        cache |-> cache]

\* loadBasics(), elena-agent.js 202-221: the result and the cache after it.
loadBasics(cache, dir) ==
  IF cache # Null
  THEN [load |-> [ok |-> TRUE, data |-> cache, error |-> Null, cached |-> TRUE],
        cache |-> cache]
  ELSE IF dir.basics # Null
  THEN [load |-> [ok |-> TRUE, data |-> dir.basics, error |-> Null, cached |-> FALSE],
        cache |-> dir.basics]
  ELSE [load |-> [ok |-> FALSE, data |-> Null,
                  error |-> Text("Failed to load ask-elena-realestate-basics.json"),
                  cached |-> FALSE],
        cache |-> cache]

\* loadRealtySaSS that reads the file on every call (mutation).
loadRealtySaSS_AlwaysReads(cache, dir) ==
  IF dir.realtysass # Null
  THEN [load |-> [ok |-> TRUE, data |-> dir.realtysass, error |-> Null,
                  cached |-> FALSE],
        cache |-> dir.realtysass]
  ELSE [load |-> [ok |-> FALSE, data |-> Null,
                  error |-> Text("Failed to load realtysass.json"), cached |-> FALSE],
        cache |-> cache]

\* loadRealtySaSS(), elena-agent.js 223-242
loadRealtySaSS(cache, dir) ==
  IF cache # Null
  THEN [load |-> [ok |-> TRUE, data |-> cache, error |-> Null, cached |-> TRUE],
        cache |-> cache]
  ELSE IF dir.realtysass # Null
  THEN [load |-> [ok |-> TRUE, data |-> dir.realtysass, error |-> Null,
                  cached |-> FALSE],
        cache |-> dir.realtysass]
  ELSE [load |-> [ok |-> FALSE, data |-> Null,
                  error |-> Text("Failed to load realtysass.json"), cached |-> FALSE],
        cache |-> cache]

\* loadState whose cached result has lost the state's defaults (mutation).
loadState_CachedWithoutDefaults(cache, dir, stateKey) ==
  LET key == normalizeStateKey(stateKey)
  IN  IF key = ""
      THEN [load |-> [ok |-> FALSE, key |-> "", file |-> Null, data |-> Null,
                      error |-> Text("No state provided."), cached |-> FALSE],
            cache |-> cache]
      ELSE IF key \in DOMAIN cache
      THEN [load |-> [ok |-> TRUE, key |-> key, file |-> <<"states", key>>,
                      data |-> [t |-> "object", defaults |-> Null],
                      error |-> Null, cached |-> TRUE],
            cache |-> cache]
      ELSE IF key \in DOMAIN dir.states
      THEN [load |-> [ok |-> TRUE, key |-> key, file |-> <<"states", key>>,
                      data |-> dir.states[key], error |-> Null, cached |-> FALSE],
            cache |-> [k \in DOMAIN cache \cup {key} |->
                         IF k = key THEN dir.states[key] ELSE cache[k]]]
      ELSE [load |-> [ok |-> FALSE, key |-> key, file |-> <<"states", key>>,
                      data |-> Null, error |-> Text("Failed to load state file"),
                      cached |-> FALSE],
            cache |-> cache]

\* loadState(stateKey), elena-agent.js 244-271.  The file name
\* states-<key>.json is written <<"states", key>>.
loadState(cache, dir, stateKey) ==
  LET key == normalizeStateKey(stateKey)
  IN  IF key = ""
      THEN [load |-> [ok |-> FALSE, key |-> "", file |-> Null, data |-> Null,
                      error |-> Text("No state provided."), cached |-> FALSE],
            cache |-> cache]
      ELSE IF key \in DOMAIN cache
      THEN [load |-> [ok |-> TRUE, key |-> key, file |-> <<"states", key>>,
                      data |-> cache[key], error |-> Null, cached |-> TRUE],
            cache |-> cache]
      ELSE IF key \in DOMAIN dir.states
      THEN [load |-> [ok |-> TRUE, key |-> key, file |-> <<"states", key>>,
                      data |-> dir.states[key], error |-> Null, cached |-> FALSE],
            cache |-> [k \in DOMAIN cache \cup {key} |->
                         IF k = key THEN dir.states[key] ELSE cache[k]]]
      ELSE [load |-> [ok |-> FALSE, key |-> key, file |-> <<"states", key>>,
                      data |-> Null, error |-> Text("Failed to load state file"),
                      cached |-> FALSE],
            cache |-> cache]

\* obj?.field for an object or null.
FieldOf(obj, field) == IF obj = Null THEN Undef ELSE obj[field]

\* resolveStateFromInputs({body, profile, contextProfile}), elena-agent.js
\* 273-293: the first state string set, else "".  (context.profile is the
\* scenario's contextProfile, so it is read once.)
resolveStateFromInputs(body, profile, contextProfile) ==
  LET found == pickFirst(<<body.overrides.state, body.overrides.license_state,
                           body.ctxState,
                           FieldOf(contextProfile, "license_state"),
                           FieldOf(contextProfile, "state"),
                           FieldOf(profile, "license_state"),
                           FieldOf(profile, "state"),
                           FieldOf(profile, "market_state"),
                           body.scenario.state>>)
  IN  IF found.t = "string" THEN found.s ELSE ""

(***************************************************************************)
(* The handler                                                             *)
(*                                                                         *)
(* An event is [httpMethod, body, lookup]: body is the raw text (absent,   *)
(* empty, text that is no JSON, or JSON text with its parsed value) and    *)
(* lookup is what fetchProfileByEmail returns for the request's email.     *)
(* The response's payload.debug and the name, phone, mode and notes of     *)
(* profile_used are left out.                                              *)
(***************************************************************************)
\* Raw text that parses as JSON to value.
JsonText(value) == [t |-> "json", value |-> value]

\* safeJsonParse(raw), elena-agent.js 73-79: an absent or empty text and a
\* text that is no JSON give {}.
safeJsonParse(raw) == IF raw.t = "json" THEN raw.value ELSE EmptyBody

\* respond(statusCode, payload, origin), elena-agent.js 62-68
respond(statusCode, payload) == [statusCode |-> statusCode, payload |-> payload]

\* The profile of a request and its source, elena-agent.js 762-776: the
\* fetched one when there is an email, else context.profile.
ProfileOf(email, lookup, contextProfile) ==
  LET fetched == IF email # "" THEN lookup ELSE [profile |-> Null, source |-> "none"]
  IN  IF fetched.profile = Null /\ contextProfile # Null
      THEN [profile |-> contextProfile, source |-> "context.profile"]
      ELSE fetched

\* profile_used, elena-agent.js 781-791
ProfileUsed(email, profile) ==
  IF profile # Null
  THEN [email |-> IF email # "" THEN Text(email) ELSE Null,
        full_name |-> profile.full_name]
  ELSE IF email # "" THEN [email |-> Text(email)] ELSE Null

\* The three loads of a request, elena-agent.js 794-802.
LoadKnowledge(basicsCache, realtysassCache, stateCache, dir, resolvedStateRaw) ==
  [basics |-> loadBasics(basicsCache, dir),
   realtysass |-> loadRealtySaSS(realtysassCache, dir),
   state |-> loadState(stateCache, dir, resolvedStateRaw),
   requested |-> resolvedStateRaw]

\* MortgagePayload that reports no error for a missing estimate (mutation).
MortgagePayload_NoError(stage, creditScore, termYears) ==
  IF stage.mortgage # Null /\ stage.mortgage.ok
  THEN [source |-> stage.mortgageSource,
        all_in_monthly |-> Num(stage.mortgage.all_in_monthly),
        breakdown |-> stage.mortgage.breakdown,
        assumptions_used |-> stage.mortgage.assumptions_used,
        apr_assumed |-> Num(stage.mortgage.apr_assumed),
        term_years |-> Num(stage.mortgage.term_years),
        loan_amount |-> Num(stage.mortgage.loan_amount),
        error |-> Null]
  ELSE [source |-> stage.mortgageSource,
        all_in_monthly |-> Null,
        breakdown |-> Null,
        assumptions_used |-> Null,
        apr_assumed |-> IF stage.mortgage = Null /\ IsFinite(creditScore)
                        THEN Num(aprTierFromScore(creditScore)) ELSE Null,
        term_years |-> termYears,
        loan_amount |-> Null,
        error |-> Null]

\* payload.mortgage, elena-agent.js 960-980
MortgagePayload(stage, creditScore, termYears) ==
  IF stage.mortgage # Null /\ stage.mortgage.ok
  THEN [source |-> stage.mortgageSource,
        all_in_monthly |-> Num(stage.mortgage.all_in_monthly),
        breakdown |-> stage.mortgage.breakdown,
        assumptions_used |-> stage.mortgage.assumptions_used,
        apr_assumed |-> Num(stage.mortgage.apr_assumed),
        term_years |-> Num(stage.mortgage.term_years),
        loan_amount |-> Num(stage.mortgage.loan_amount),
        error |-> Null]
  ELSE [source |-> stage.mortgageSource,
        all_in_monthly |-> Null,
        breakdown |-> Null,
        assumptions_used |-> Null,
        apr_assumed |-> IF stage.mortgage = Null /\ IsFinite(creditScore)
                        THEN Num(aprTierFromScore(creditScore)) ELSE Null,
        term_years |-> termYears,
        loan_amount |-> Null,
        error |-> IF stage.mortgage # Null THEN Text(stage.mortgage.reason)
                  ELSE Text("Mortgage estimate unavailable (missing inputs).")]

\* inputs_used, elena-agent.js 917-940
InputsUsed(email, sc, who, kn, income, stage, quick) ==
  [income |-> income,
   expenses |-> sc.expenses,
   price |-> sc.price,
   downpayment |-> sc.downpayment,
   creditScore |-> sc.creditScore,
   termYears |-> sc.termYears,
   apr_assumed |-> IF IsFinite(sc.creditScore)
                   THEN Num(aprTierFromScore(sc.creditScore)) ELSE Null,
   sources |->
     [email |-> IF email # "" THEN "request" ELSE "missing",
      profile |-> who.source,
      creditScore |-> IF IsFinite(sc.creditScore) THEN sc.creditScoreSource
                      ELSE "missing",
      mortgage |-> stage.mortgageSource,
      quick |-> IF quick # Null THEN "deterministic_quick_rails" ELSE "missing_income",
      knowledge_basics |-> IF kn.basics.load.ok THEN "file" ELSE "missing",
      knowledge_realtysass |-> IF kn.realtysass.load.ok THEN "file" ELSE "missing",
      knowledge_state |-> IF kn.state.load.ok THEN "file" ELSE "missing"]]

\* str || null for a string: the empty string gives null.
OrNull(str) == IF str = "" THEN Null ELSE Text(str)

\* knowledge_used, elena-agent.js 811-832 (without the file names of the
\* two knowledge files, which are constants)
KnowledgeUsed(kn) ==
  [basics |-> [ok |-> kn.basics.load.ok, cached |-> kn.basics.load.cached,
               error |-> kn.basics.load.error],
   realtysass |-> [ok |-> kn.realtysass.load.ok, cached |-> kn.realtysass.load.cached,
                   error |-> kn.realtysass.load.error],
   state |-> [ok |-> kn.state.load.ok, requested |-> OrNull(kn.requested),
              key |-> OrNull(kn.state.load.key), file |-> kn.state.load.file,
              cached |-> kn.state.load.cached, error |-> kn.state.load.error]]

\* knowledge.state_key, elena-agent.js 808
StateKeyOf(kn) ==
  IF kn.state.load.ok THEN Text(kn.state.load.key)
  ELSE OrNull(normalizeStateKey(kn.requested))

\* The response of the POST branch, elena-agent.js 892-1011, from the values
\* computed before it, with the cache contents after the loads.
PostResult(email, now, sc, who, kn, income, stage, quick, verdict, missing_inputs) ==
  [response |->
     respond(200,
       [ok |-> TRUE,
        scenario_id |-> <<IF email # "" THEN email ELSE "anon", now>>,
        ts |-> now,
        email |-> IF email # "" THEN Text(email) ELSE Null,
        profile_used |-> ProfileUsed(email, who.profile),
        intent |-> IF sc.question # Null THEN "user_question" ELSE "affordability_check",
        question |-> sc.question,
        missing_inputs |-> missing_inputs,
        inputs_used |-> InputsUsed(email, sc, who, kn, income, stage, quick),
        knowledge |-> [basics |-> kn.basics.load.data,
                       realtysass |-> kn.realtysass.load.data,
                       state |-> kn.state.load.data,
                       state_key |-> StateKeyOf(kn)],
        knowledge_used |-> KnowledgeUsed(kn),
        quick |-> quick,
        mortgage |-> MortgagePayload(stage, sc.creditScore, sc.termYears),
        verdict |-> verdict,
        next_action |-> pickNextAction([verdict |-> verdict,
                                        missing_inputs |-> Array(missing_inputs),
                                        price |-> sc.price,
                                        housingAllIn |-> stage.housingAllIn]),
        context |-> [fad_ok |-> sc.fad # EmptyObject(DOMAIN sc.fad),
                     profile_ok |-> ProfileUsed(email, who.profile) # Null,
                     state_resolved |-> StateKeyOf(kn)]]),
   basicsCache |-> kn.basics.cache,
   realtysassCache |-> kn.realtysass.cache,
   stateCache |-> kn.state.cache]

\* Quick rails, verdict and missing inputs, elena-agent.js 882-905, from the
\* income and the mortgage stage.
PostWithMortgage(email, now, sc, who, kn, income, stage) ==
  PostResult(email, now, sc, who, kn, income, stage,
             buildQuickAffordability(
               [income |-> income, housingCapPct |-> Num(30), buffer |-> Num(128),
                apr |-> Num(aprTierFromScore(sc.creditScore)),
                termYears |-> sc.termYears]),
             computeVerdict([income |-> income, expenses |-> sc.expenses,
                             housingAllIn |-> stage.housingAllIn]),
             listMissingInputs([income |-> income, expenses |-> sc.expenses,
                                creditScore |-> sc.creditScore,
                                downpayment |-> sc.downpayment, price |-> sc.price,
                                housingAllIn |-> stage.housingAllIn]))

\* The income and the mortgage stage, elena-agent.js 835-880, from the
\* scenario and the loads.
PostWithKnowledge(email, now, sc, who, kn) ==
  PostWithMortgage(email, now, sc, who, kn,
                   num(pickFirst(<<sc.income, FieldOf(sc.contextProfile, "income"),
                                   FieldOf(sc.contextProfile, "monthly_income")>>)),
                   mortgageStage(sc, IF kn.state.load.ok
                                     THEN kn.state.load.data.defaults ELSE Null))

\* The profile and the loads, elena-agent.js 762-802, from the scenario.
PostWithScenario(body, lookup, basicsCache, realtysassCache, stateCache, dir, now, sc) ==
  PostWithKnowledge(
    body.email, now, sc,
    ProfileOf(body.email, lookup, sc.contextProfile),
    LoadKnowledge(basicsCache, realtysassCache, stateCache, dir,
                  resolveStateFromInputs(
                    body, ProfileOf(body.email, lookup, sc.contextProfile).profile,
                    sc.contextProfile)))

\* exports.handler(event), elena-agent.js 736-1012: the response and the
\* cache contents after it.  A body that parses to null makes body.email
\* throw a TypeError the handler does not catch: the platform answers with
\* a 5xx status.
handler(event, basicsCache, realtysassCache, stateCache, dir, now) ==
  IF event.httpMethod = "POST" /\ safeJsonParse(event.body) # Null
  THEN PostWithScenario(safeJsonParse(event.body), event.lookup, basicsCache,
                        realtysassCache, stateCache, dir, now,
                        buildScenario(safeJsonParse(event.body)))
  ELSE [response |->
          IF event.httpMethod = "OPTIONS" THEN respond(200, [ok |-> TRUE])
          ELSE IF event.httpMethod # "POST"
          THEN respond(405, [ok |-> FALSE, error |-> "Method not allowed. Use POST."])
          ELSE respond(500, [ok |-> FALSE, error |-> "TypeError"]),
        basicsCache |-> basicsCache,
        realtysassCache |-> realtysassCache,
        stateCache |-> stateCache]

(***************************************************************************)
(* Bounds of the inputs                                                    *)
(***************************************************************************)
\* Prices are multiples of 200000 up to MaxPriceK * 200000.
MaxPriceK == 2

\* Terms are multiples of 15 years up to MaxTermK * 15.
MaxTermK == 2

\* Credit scores given to aprTierFromScore are multiples of 20 up to
\* MaxScoreK * 20.
MaxScoreK == 43

\* Incomes are multiples of 500 up to MaxIncomeK * 500.
MaxIncomeK == 2

\* Expenses are multiples of 20 up to MaxExpenseK * 20.
MaxExpenseK == 50

\* Housing costs are multiples of 10 up to MaxHousingK * 10.
MaxHousingK == 32

\* MaxRequests invocations are in flight at once on a shared instance.
MaxRequests == 2

\* At most MaxServed invocations are served in one behaviour.
MaxServed == 3

\* The clock advances at most MaxClock seconds in one behaviour.
MaxClock == 2

(***************************************************************************)
(* The calls: each behaviour is one call of one function.  The initial     *)
(* state holds the function and its arguments, the call's action computes  *)
(* the result.                                                            *)
(***************************************************************************)
\* Arguments of aprTierFromScore: two scores, to compare their tiers.
AprScores == {Null, Undef, NaN} \cup {Num(k * 20) : k \in -1..MaxScoreK}

AprArgs == [a : AprScores, b : AprScores]

\* Arguments of estimateAllInHousing.
EstPrices == {Null, Undef} \cup {Num(k * 200000) : k \in -1..MaxPriceK}

EstDownpayments ==
  {Null, Undef} \cup {Num(k * 40000) : k \in -1..1}
                \cup {Num(k * 200000) : k \in 1..MaxPriceK}

EstScores == {Null, Undef} \cup {Num(s) : s \in {299, 300, 680, 760, 850, 851}}

EstTerms == {Undef} \cup {Num(k * 15) : k \in 1..MaxTermK}

EstTaxRates == {Undef, Num(200), Num(125), Num(-300)}

EstInsurances == {Undef, Num(2400), Num(1000), Num(-60000)}

EstHoas == {Undef, Num(0), Num(75), Num(-5000)}

EstArgs ==
  [price : EstPrices, downpayment : EstDownpayments, creditScore : EstScores,
   termYears : EstTerms, taxRate : EstTaxRates, insuranceAnnual : EstInsurances,
   hoaMonthly : EstHoas]

\* Arguments of the handler's mortgage stage: the scenario fields as
\* buildScenario leaves them (a finite number or null; the term always a
\* number) and the state file's defaults, when a state file was loaded.
StateDefaults ==
  {Null,
   [t |-> "object",
    v |-> [tax_rate |-> Undef, property_tax_rate |-> Num(180),
           insurance_annual |-> Num(1800), homeowners_insurance_annual |-> Undef,
           hoa_monthly |-> Num(50)]]}

StageArgs ==
  [sc : [price : {Null} \cup {Num(k * 200000) : k \in 0..MaxPriceK},
         downpayment : {Null, Num(0), Num(40000), Num(400000)},
         creditScore : {Null, Num(300), Num(760)},
         termYears : {Num(30)},
         taxRate : {Null, Num(0), Num(200), Num(-300)},
         insuranceAnnual : {Null, Num(0), Num(-60000)},
         hoaMonthly : {Null, Num(0), Num(-5000)}],
   stateDefaults : StateDefaults]

\* Arguments of computeVerdict, with the worked example of income 6000,
\* expenses 1500 and a housing cost of 3202.
VerdictArgs ==
  [income : {Null, Undef, NaN} \cup {Num(k * 500) : k \in -1..MaxIncomeK},
   expenses : {Null} \cup {Num(k * 20) : k \in -1..MaxExpenseK},
   housingAllIn : {Null, Undef} \cup {Num(k * 10) : k \in -1..MaxHousingK}]
  \cup {[income |-> Num(6000), expenses |-> Num(1500), housingAllIn |-> Num(3202)]}

\* Arguments of buildQuickAffordability: whole and fractional incomes, the
\* APR tiers and a non-finite apr, the ends of the term range.  (No income
\* here makes income*0.30/1.28 an exact half, where the double-precision
\* quotient can fall just below it.)
QuickIncomes ==
  {Null, Undef, NaN, Ratio(1, 4), Ratio(1, 2), Num(1), Num(5), Num(6000)}
  \cup {Num(k * 500) : k \in -1..MaxIncomeK}

QuickAprs == {Null, Num(0)} \cup {Num(aprTierFromScore(s)) : s \in AprScores}

QuickTerms == {Undef, Null, Num(0), Num(10), Num(40)} \cup {Num(k * 15) : k \in 1..MaxTermK}

QuickArgs ==
  [income : QuickIncomes, housingCapPct : {Undef, Num(30)}, buffer : {Undef, Num(128)},
   apr : QuickAprs, termYears : QuickTerms]

\* Arguments of buildScenario: request bodies that set the price, the credit
\* score and the term in overrides, in a snapshot and in the baseline
\* scenario, as numbers, strings, null or not at all, with and without a
\* question; and the null body.
Snapshots ==
  {Null,
   EmptyObject(FadFields),
   [EmptyObject(FadFields) EXCEPT !.homePrice = Num(200000),
                                  !.credit_score = Num(680),
                                  !.term = Num(15)]}

Questions ==
  {Null, Question(FALSE, Num(720)), Question(TRUE, Null), Question(TRUE, Num(720)),
   Question(TRUE, Num(299)), Question(TRUE, Num(900))}

ScenarioBodies ==
  {Null} \cup
  {[EmptyBody EXCEPT
      !.overrides = [EmptyObject(OverrideFields) EXCEPT
                       !.price = op, !.creditScore = oc, !.termYears = ot],
      !.scenario = [EmptyObject(ScenarioFields) EXCEPT
                      !.price = sp, !.creditScore = sc, !.score = ss],
      !.fad = f,
      !.question = q] :
     op \in {Undef, Num(400000), TextStr, EmptyStr, NumStr(200000)},
     oc \in {Undef, Null, EmptyStr, TextStr, Num(0), Num(299), Num(720), Num(851)},
     ot \in {Undef, Num(0), Num(5), Num(15), Num(45), Ratio(61, 2)},
     sp \in {Undef, Num(400000)},
     sc \in {Undef, Num(700), Ratio(1441, 2)},
     ss \in {Undef, Num(760)},
     f \in Snapshots,
     q \in Questions}

\* The data directory: no file at all, or the two knowledge files and the
\* state file of Texas with its defaults.
NoFiles == [basics |-> Null, realtysass |-> Null, states |-> <<>>]

AllFiles ==
  [basics |-> [t |-> "object", v |-> "basics"],
   realtysass |-> [t |-> "object", v |-> "realtysass"],
   states |-> [k \in {"texas"} |->
                 [t |-> "object",
                  defaults |-> [t |-> "object",
                                v |-> [tax_rate |-> Num(180),
                                       property_tax_rate |-> Undef,
                                       insurance_annual |-> Num(1800),
                                       homeowners_insurance_annual |-> Undef,
                                       hoa_monthly |-> Undef]]]]]

Disks == {NoFiles, AllFiles}

\* The data directory after a new deployment: every file has new content.
NewFiles ==
  [basics |-> [t |-> "object", v |-> "basics-2"],
   realtysass |-> [t |-> "object", v |-> "realtysass-2"],
   states |-> [k \in {"texas"} |->
                 [t |-> "object",
                  defaults |-> [t |-> "object",
                                v |-> [tax_rate |-> Num(190),
                                       property_tax_rate |-> Undef,
                                       insurance_annual |-> Num(1900),
                                       homeowners_insurance_annual |-> Undef,
                                       hoa_monthly |-> Undef]]]]]

\* What fetchProfileByEmail returns for a request with an email.
Lookups ==
  {[profile |-> Null, source |-> "supabase_env_missing"],
   [profile |-> [EmptyObject(ProfileFields) EXCEPT !.full_name = Text("Ana Diaz")],
    source |-> "supabase:profiles"]}

\* Events of the handler: POST requests whose body sets the required
\* scalars in the baseline scenario or not at all (the expenses also as a
\* text that spells no number), with credit scores at
\* and beyond the ends of [300,850], with and without a snapshot, an
\* override of the score, a question and a state; and requests with no
\* body, with a body that is no JSON or is the JSON null, and other methods.
\* One body sets the income 5000 and nothing else; others pay the whole
\* price or more down.
HandlerBodies ==
  {[EmptyBody EXCEPT
      !.overrides = [EmptyObject(OverrideFields) EXCEPT !.creditScore = oc, !.state = st],
      !.scenario = [EmptyObject(ScenarioFields) EXCEPT
                      !.price = sp, !.downpayment = sd, !.income = si,
                      !.expenses = se, !.creditScore = sc],
      !.fad = f,
      !.question = q] :
     oc \in {Undef, EmptyStr, Num(720)},
     st \in {Undef, Text("tx")},
     sp \in {Undef, Num(0), Num(-200000), Num(400000)},
     sd \in {Undef, Num(-40000), Num(80000)},
     si \in {Undef, Num(6000), Num(12000)},
     se \in {Undef, TextStr, Num(1500)},
     sc \in {Undef, Num(299), Num(300), Num(760), Num(850), Num(851)},
     f \in {Null, EmptyObject(FadFields)},
     q \in {Null, Question(TRUE, Num(720))}}
  \cup
  {[EmptyBody EXCEPT
      !.scenario = [EmptyObject(ScenarioFields) EXCEPT !.income = si],
      !.contextProfile = [EmptyObject(ProfileFields) EXCEPT
                            !.income = Num(5000), !.state = Text("texas")],
      !.email = e] :
     si \in {Undef, TextStr}, e \in {"", "ana@example.com"}}
  \cup
  {[EmptyBody EXCEPT
      !.scenario = [EmptyObject(ScenarioFields) EXCEPT
                      !.price = Num(400000), !.downpayment = Num(80000),
                      !.score = ss],
      !.snapshot = f] :
     ss \in {Undef, Num(760)},
     f \in {Null, [EmptyObject(FadFields) EXCEPT !.scoreValue = Num(680)]}}
  \cup
  {[EmptyBody EXCEPT
      !.scenario = [EmptyObject(ScenarioFields) EXCEPT !.income = Num(5000)]]}
  \cup
  {[EmptyBody EXCEPT
      !.scenario = [EmptyObject(ScenarioFields) EXCEPT
                      !.price = Num(400000), !.downpayment = sd,
                      !.creditScore = Num(760), !.income = si]] :
     sd \in {Num(400000), Num(480000)},
     si \in {Undef, Num(6000)}}

HandlerEvents ==
  {[httpMethod |-> "POST", body |-> JsonText(b), lookup |-> l] :
     b \in HandlerBodies, l \in {[profile |-> Null, source |-> "supabase_env_missing"]}}
  \cup
  {[httpMethod |-> me, body |-> b, lookup |-> l] :
     me \in {"POST", "OPTIONS", "GET"},
     b \in {Undef, EmptyStr, TextStr, JsonText(Null), JsonText(EmptyBody),
            JsonText([EmptyBody EXCEPT !.email = "ana@example.com"])},
     l \in Lookups}

\* Arguments of pickNextAction.  The verdict is null, a literal record, or
\* (origin "computeVerdict") the verdict computeVerdict gives for the call's
\* housingAllIn, as in the handler, elena-agent.js 892-912.
ActionPrices == {Null, Undef, Num(-1), Num(0), Num(150900), Num(200000), Num(400000)}

ActionHousing == {Null, Num(-10), Num(0), Num(200), Num(400), Num(3202)}

ActionMissing ==
  {Null, Undef, Array(<<>>), Array(<<"income">>), Array(<<"price", "creditScore">>)}

LiteralVerdicts ==
  {Null} \cup [status : {"INSUFFICIENT", "NO-GO", "CAUTION", "GREEN"},
               housingCap : {Null, Num(300)}]

ActionArgs ==
  {[verdict |-> w, missing_inputs |-> m, price |-> p, housingAllIn |-> h,
    origin |-> "literal", income |-> Null, expenses |-> Null] :
     w \in LiteralVerdicts, m \in ActionMissing, p \in ActionPrices, h \in ActionHousing}
  \cup
  {[verdict |-> computeVerdict([income |-> i, expenses |-> e, housingAllIn |-> h]),
    missing_inputs |-> m, price |-> p, housingAllIn |-> h,
    origin |-> "computeVerdict", income |-> i, expenses |-> e] :
     i \in {Num(k * 1000) : k \in 1..MaxIncomeK} \cup {Num(6000)},
     e \in {Null, Num(0), Num(900), Num(1500)},
     m \in ActionMissing, p \in ActionPrices, h \in ActionHousing}

\* A fresh instance: nothing cached, nothing served.
ColdStart ==
  /\ BASICS_CACHE = Null
  /\ REALTYSASS_CACHE = Null
  /\ STATE_CACHE = <<>>
  /\ clock = 0
  /\ served = <<>>

Init ==
  /\ pc = "call"
  /\ ret = Null
  /\ ColdStart
  /\ \/ fn = "aprTierFromScore" /\ args \in AprArgs
     \/ fn = "estimateAllInHousing" /\ args \in EstArgs
     \/ fn = "mortgageStage" /\ args \in StageArgs
     \/ fn = "computeVerdict" /\ args \in VerdictArgs
     \/ fn = "pickNextAction" /\ args \in ActionArgs
     \/ fn = "buildQuickAffordability" /\ args \in QuickArgs
     \/ fn = "buildScenario" /\ args \in ScenarioBodies
     \/ fn = "handler" /\ args \in HandlerEvents
  /\ disk \in IF fn = "handler" THEN Disks ELSE {NoFiles}

\* One call of aprTierFromScore for each of the two scores.
CallAprTier ==
  /\ pc = "call"
  /\ fn = "aprTierFromScore"
  /\ ret' = [a |-> aprTierFromScore(args.a), b |-> aprTierFromScore(args.b)]
  /\ pc' = "done"
  /\ UNCHANGED <<fn, args, knowledge>>

CallEstimate ==
  /\ pc = "call"
  /\ fn = "estimateAllInHousing"
  /\ ret' = estimateAllInHousing(args)
  /\ pc' = "done"
  /\ UNCHANGED <<fn, args, knowledge>>

CallMortgageStage ==
  /\ pc = "call"
  /\ fn = "mortgageStage"
  /\ ret' = mortgageStage(args.sc, args.stateDefaults)
  /\ pc' = "done"
  /\ UNCHANGED <<fn, args, knowledge>>

CallVerdict ==
  /\ pc = "call"
  /\ fn = "computeVerdict"
  /\ ret' = computeVerdict(args)
  /\ pc' = "done"
  /\ UNCHANGED <<fn, args, knowledge>>

CallNextAction ==
  /\ pc = "call"
  /\ fn = "pickNextAction"
  /\ ret' = pickNextAction(args)
  /\ pc' = "done"
  /\ UNCHANGED <<fn, args, knowledge>>

CallQuick ==
  /\ pc = "call"
  /\ fn = "buildQuickAffordability"
  /\ ret' = buildQuickAffordability(args)
  /\ pc' = "done"
  /\ UNCHANGED <<fn, args, knowledge>>

CallBuildScenario ==
  /\ pc = "call"
  /\ fn = "buildScenario"
  /\ ret' = buildScenario(args)
  /\ pc' = "done"
  /\ UNCHANGED <<fn, args, knowledge>>

\* One invocation of the handler: the response, and the caches it fills.
CallHandler ==
  /\ pc = "call"
  /\ fn = "handler"
  /\ \E out \in {handler(args, BASICS_CACHE, REALTYSASS_CACHE, STATE_CACHE, disk, clock)} :
        /\ ret' = out.response
        /\ BASICS_CACHE' = out.basicsCache
        /\ REALTYSASS_CACHE' = out.realtysassCache
        /\ STATE_CACHE' = out.stateCache
        /\ served' = Append(served, [event |-> args, response |-> out.response])
  /\ pc' = "done"
  /\ UNCHANGED <<fn, args, disk, clock>>

Next ==
  \/ CallAprTier
  \/ CallEstimate
  \/ CallMortgageStage
  \/ CallVerdict
  \/ CallNextAction
  \/ CallQuick
  \/ CallBuildScenario
  \/ CallHandler

Spec == Init /\ [][Next]_vars

(***************************************************************************)
(* A warm instance: the handler serves one request after another, and the  *)
(* caches live on between them.  The data directory does not change.       *)
(***************************************************************************)
ServerBodies ==
  {EmptyBody,
   [EmptyBody EXCEPT !.email = "ana@example.com"],
   [EmptyBody EXCEPT
      !.overrides = [EmptyObject(OverrideFields) EXCEPT !.state = Text("tx")],
      !.scenario = [EmptyObject(ScenarioFields) EXCEPT
                      !.price = Num(400000), !.downpayment = Num(80000),
                      !.income = Num(12000), !.expenses = Num(1500),
                      !.creditScore = Num(760)]],
   [EmptyBody EXCEPT
      !.scenario = [EmptyObject(ScenarioFields) EXCEPT !.state = Text("zz")]]}

ServerEvents ==
  {[httpMethod |-> "POST", body |-> JsonText(b),
    lookup |-> [profile |-> Null, source |-> "supabase:empty"]] : b \in ServerBodies}
  \cup
  {[httpMethod |-> "OPTIONS", body |-> Undef,
    lookup |-> [profile |-> Null, source |-> "supabase:empty"]],
   [httpMethod |-> "POST", body |-> JsonText(Null),
    lookup |-> [profile |-> Null, source |-> "supabase:empty"]]}

ServerInit ==
  /\ pc = "call"
  /\ ret = Null
  /\ ColdStart
  /\ fn = "handler"
  /\ args \in ServerEvents
  /\ disk \in Disks

\* The next request arrives.
Receive ==
  /\ pc = "done"
  /\ fn = "handler"
  /\ Len(served) < MaxServed
  /\ args' \in ServerEvents
  /\ pc' = "call"
  /\ ret' = Null
  /\ UNCHANGED <<fn, knowledge>>

\* A second passes.
Tick ==
  /\ clock < MaxClock
  /\ clock' = clock + 1
  /\ UNCHANGED <<fn, args, ret, pc, BASICS_CACHE, REALTYSASS_CACHE, STATE_CACHE,
                 disk, served>>

ServerNext ==
  \/ CallHandler
  \/ Receive
  \/ Tick

ServerSpec == ServerInit /\ [][ServerNext]_vars

(***************************************************************************)
(* Concurrent invocations on one instance.  The handler is an async        *)
(* function with one await, the profile lookup, taken only when the        *)
(* request has an email; JavaScript runs everything between two awaits     *)
(* without interruption.  What precedes the await (parsing the body, the   *)
(* email, buildScenario) reads only the event, so an invocation is two     *)
(* steps: it begins, and either runs to its response at once or suspends   *)
(* at the lookup; resumed, it loads the knowledge through the shared       *)
(* caches as they are then and answers.  Here fn is "handler" and args,    *)
(* ret and pc hold one entry for each invocation.  An entry of served      *)
(* also records which invocations were suspended when it was answered.     *)
(***************************************************************************)
\* Requests with a complete scenario, with and without a state, an email
\* and a tax rate that is no number (the state's default then applies).
ConcurrentBodies ==
  {[EmptyBody EXCEPT
      !.overrides = [EmptyObject(OverrideFields) EXCEPT !.state = st],
      !.scenario = [EmptyObject(ScenarioFields) EXCEPT
                      !.price = Num(400000), !.downpayment = Num(80000),
                      !.income = si, !.expenses = Num(1500),
                      !.creditScore = Num(760), !.taxRate = sx],
      !.email = e] :
     st \in {Undef, Text("tx")},
     sx \in {Undef, TextStr},
     si \in {Num(6000), Num(12000)},
     e \in {"", "ana@example.com"}}

ConcurrentEvents ==
  {[httpMethod |-> "POST", body |-> JsonText(b),
    lookup |-> [profile |-> Null, source |-> "supabase:empty"]] :
     b \in ConcurrentBodies}
  \cup
  {[httpMethod |-> "POST", body |-> JsonText(Null),
    lookup |-> [profile |-> Null, source |-> "supabase:empty"]]}

ConcurrentInit ==
  /\ fn = "handler"
  /\ args \in [1..MaxRequests -> ConcurrentEvents]
  /\ pc = [i \in 1..MaxRequests |-> "call"]
  /\ ret = [i \in 1..MaxRequests |-> Null]
  /\ ColdStart
  /\ disk \in Disks

\* The invocation reaches the await of the profile lookup, elena-agent.js
\* 766-767: a POST whose body is an object with an email.
AwaitsLookup(event) ==
  /\ event.httpMethod = "POST"
  /\ safeJsonParse(event.body) # Null
  /\ safeJsonParse(event.body).email # ""

\* Invocation i answers from the caches as they are now.
Answer(i) ==
  \E out \in {handler(args[i], BASICS_CACHE, REALTYSASS_CACHE, STATE_CACHE, disk, clock)} :
     /\ ret' = [ret EXCEPT ![i] = out.response]
     /\ BASICS_CACHE' = out.basicsCache
     /\ REALTYSASS_CACHE' = out.realtysassCache
     /\ STATE_CACHE' = out.stateCache
     /\ served' = Append(served,
                         [event |-> args[i], response |-> out.response,
                          suspended |-> {j \in 1..MaxRequests : j # i /\ pc[j] = "await"}])
     /\ pc' = [pc EXCEPT ![i] = "done"]

\* Invocation i starts and suspends at the profile lookup.
Suspend(i) ==
  /\ pc[i] = "call"
  /\ AwaitsLookup(args[i])
  /\ pc' = [pc EXCEPT ![i] = "await"]
  /\ UNCHANGED <<fn, args, ret, knowledge>>

\* Invocation i starts and, having no lookup to wait for, runs to its end.
RunThrough(i) ==
  /\ pc[i] = "call"
  /\ ~AwaitsLookup(args[i])
  /\ Answer(i)
  /\ UNCHANGED <<fn, args, disk, clock>>

\* The lookup of invocation i has returned: it runs to its end.
Resume(i) ==
  /\ pc[i] = "await"
  /\ Answer(i)
  /\ UNCHANGED <<fn, args, disk, clock>>

ConcurrentNext ==
  \/ \E i \in 1..MaxRequests : Suspend(i)
  \/ \E i \in 1..MaxRequests : RunThrough(i)
  \/ \E i \in 1..MaxRequests : Resume(i)

ConcurrentSpec == ConcurrentInit /\ [][ConcurrentNext]_vars

(***************************************************************************)
(* The loaders alone: any sequence of loadBasics, loadRealtySaSS and        *)
(* loadState calls on one instance, while the data directory may be         *)
(* replaced between calls.  Here fn is "load", args the file the last call  *)
(* was for and ret its result; served logs, for every call, the file, the   *)
(* result and what the directory held for the file at the time.  The        *)
(* knowledge files hold JSON objects.                                       *)
(***************************************************************************)
\* The state keys the calls are made with.
LoaderStateKeys == {"", "tx", "texas", "zz"}

\* What the directory holds for a file; null when the file is not there.
OnDisk(dir, file) ==
  IF file = <<"basics">> THEN dir.basics
  ELSE IF file = <<"realtysass">> THEN dir.realtysass
  ELSE IF file[2] \in DOMAIN dir.states THEN dir.states[file[2]]
  ELSE Null

LoaderInit ==
  /\ fn = "load"
  /\ args = Null
  /\ ret = Null
  /\ pc = "idle"
  /\ ColdStart
  /\ disk \in Disks

\* The bookkeeping of one call for the file with the result out.load.
Loaded(file, out) ==
  /\ args' = file
  /\ ret' = out.load
  /\ served' = Append(served, [file |-> file, result |-> out.load,
                               onDisk |-> OnDisk(disk, file)])
  /\ UNCHANGED <<fn, pc, disk, clock>>

CallLoadBasics ==
  /\ Len(served) < MaxServed
  /\ \E out \in {loadBasics(BASICS_CACHE, disk)} :
        /\ BASICS_CACHE' = out.cache
        /\ Loaded(<<"basics">>, out)
  /\ UNCHANGED <<REALTYSASS_CACHE, STATE_CACHE>>

CallLoadRealtySaSS ==
  /\ Len(served) < MaxServed
  /\ \E out \in {loadRealtySaSS(REALTYSASS_CACHE, disk)} :
        /\ REALTYSASS_CACHE' = out.cache
        /\ Loaded(<<"realtysass">>, out)
  /\ UNCHANGED <<BASICS_CACHE, STATE_CACHE>>

CallLoadState ==
  /\ Len(served) < MaxServed
  /\ \E stateKey \in LoaderStateKeys :
        \E out \in {loadState(STATE_CACHE, disk, stateKey)} :
           /\ STATE_CACHE' = out.cache
           /\ Loaded(<<"states", normalizeStateKey(stateKey)>>, out)
  /\ UNCHANGED <<BASICS_CACHE, REALTYSASS_CACHE>>

\* The data directory is replaced: files appear, disappear or change.
Deploy ==
  /\ clock < MaxClock
  /\ clock' = clock + 1
  /\ disk' \in (Disks \cup {NewFiles}) \ {disk}
  /\ UNCHANGED <<fn, args, ret, pc, BASICS_CACHE, REALTYSASS_CACHE, STATE_CACHE,
                 served>>

LoaderNext ==
  \/ CallLoadBasics
  \/ CallLoadRealtySaSS
  \/ CallLoadState
  \/ Deploy

LoaderSpec == LoaderInit /\ [][LoaderNext]_vars

(***************************************************************************)
(* Claims                                                                  *)
(***************************************************************************)
Returned(f) == pc = "done" /\ fn = f

\* A value that is null, undefined or NaN: no number at all.
Missing(x) == x.t \in {"null", "undefined", "nan"}

\* An income the verdict engine takes as present: a finite number other than 0.
Present(x) == IsFinite(x) /\ x.v # 0

BreakdownSum(b) == b.principal_interest + b.taxes + b.insurance + b.hoa

\* C1: for price > 0, 0 <= downpayment < price and creditScore in [300,850],
\* a successful estimate's all_in_monthly equals the sum of its four
\* breakdown components.
C1_BreakdownSumsToTotal ==
  (/\ Returned("estimateAllInHousing")
   /\ IsFinite(args.price) /\ args.price.v > 0
   /\ IsFinite(args.downpayment)
   /\ args.downpayment.v >= 0 /\ args.downpayment.v < args.price.v
   /\ IsFinite(args.creditScore)
   /\ args.creditScore.v >= 300 /\ args.creditScore.v <= 850
   /\ ret.ok)
  => ret.all_in_monthly = BreakdownSum(ret.breakdown)

\* The inputs of a computeVerdict call as the claims name them: expenses
\* count as 0 when missing.
ArgIncome == args.income.v

ArgExpenses == IF IsFinite(args.expenses) THEN args.expenses.v ELSE 0

ArgHousing == args.housingAllIn.v

ArgResidual == ArgIncome - ArgExpenses - ArgHousing

HousingPositive == IsFinite(args.housingAllIn) /\ args.housingAllIn.v > 0

\* Residual below zero, or housing cost above 30% of income.
NoGoCase == ArgResidual < 0 \/ ArgHousing * 100 > 30 * ArgIncome

\* Neither, and the residual below 5% of income.
CautionCase == ~NoGoCase /\ ArgResidual * 100 < 5 * ArgIncome

\* C2: with income present and housingAllIn positive, the status is NO-GO
\* exactly when residual < 0 or housingAllIn > 0.30*income, CAUTION exactly
\* when neither holds and residual < 0.05*income, and GREEN otherwise.
C2_VerdictThresholds ==
  (Returned("computeVerdict") /\ Present(args.income) /\ HousingPositive)
  => /\ (ret.status = "NO-GO") <=> NoGoCase
     /\ (ret.status = "CAUTION") <=> CautionCase
     /\ (ret.status = "GREEN") <=> (~NoGoCase /\ ~CautionCase)

\* A negative residual with housing at no more than 10% of income is NO-GO.
C2_Witness ==
  /\ Returned("computeVerdict")
  /\ Present(args.income) /\ HousingPositive
  /\ ArgResidual < 0
  /\ ArgHousing * 100 <= 10 * ArgIncome
  /\ ret.status = "NO-GO"

\* C3: the verdict is INSUFFICIENT with grade N/A whenever income is
\* missing, whatever the expenses and housingAllIn; and whenever income is
\* present but housingAllIn is missing or not positive, and then housingCap
\* is 0.30*income rounded to the nearest integer.
C3_InsufficientWhenMissing ==
  Returned("computeVerdict")
  => /\ Missing(args.income)
        => ret.status = "INSUFFICIENT" /\ ret.grade = "N/A"
     /\ (Present(args.income) /\ ~HousingPositive)
        => /\ ret.status = "INSUFFICIENT"
           /\ ret.grade = "N/A"
           /\ IsFinite(ret.housingCap)
           /\ 100 * ret.housingCap.v <= 30 * ArgIncome + 50
           /\ 30 * ArgIncome + 50 < 100 * (ret.housingCap.v + 1)

\* Income 500 and no housing estimate: INSUFFICIENT, cap 150 reported.
C3_Witness ==
  /\ Returned("computeVerdict")
  /\ args.income = Num(500)
  /\ args.housingAllIn = Null
  /\ ret.status = "INSUFFICIENT"
  /\ ret.housingCap = Num(150)

\* C4 as stated: for every finite income, zero and negative included, and a
\* finite positive housingAllIn, the status is GREEN, CAUTION or NO-GO.
C4_DefiniteForEveryFiniteIncome ==
  (Returned("computeVerdict") /\ IsFinite(args.income) /\ HousingPositive)
  => ret.status \in {"GREEN", "CAUTION", "NO-GO"}

\* C4 amended: for every finite income other than 0, negative included, and
\* a finite positive housingAllIn, the status is GREEN, CAUTION or NO-GO;
\* an income of 0 is taken as missing and gives INSUFFICIENT.
C4_DefiniteForNonzeroIncome ==
  (Returned("computeVerdict") /\ IsFinite(args.income) /\ HousingPositive)
  => IF args.income.v # 0
     THEN ret.status \in {"GREEN", "CAUTION", "NO-GO"}
     ELSE ret.status = "INSUFFICIENT"

\* A negative income with a positive housing cost gets a definite verdict.
C4_Witness ==
  /\ Returned("computeVerdict")
  /\ IsFinite(args.income) /\ args.income.v < 0
  /\ HousingPositive
  /\ ret.status = "NO-GO"

\* The grade of a GREEN verdict by the thresholds of the claim.
GreenGrade ==
  IF ArgHousing * 100 <= 25 * ArgIncome /\ ArgResidual * 100 >= 12 * ArgIncome THEN "A"
  ELSE IF ArgHousing * 100 <= 28 * ArgIncome /\ ArgResidual * 100 >= 5 * ArgIncome
  THEN "A-"
  ELSE IF ArgHousing * 100 <= 30 * ArgIncome /\ ArgResidual * 100 >= 5 * ArgIncome
  THEN "B+"
  ELSE "B"

\* C5: the grade is fixed by the status and the thresholds: INSUFFICIENT
\* gives N/A, NO-GO gives D, CAUTION gives C+, and GREEN gives A, A-, B+ or
\* B by the housing ratio and the residual; no other pairing occurs.
C5_GradeByStatus ==
  Returned("computeVerdict")
  => /\ ret.status \in {"INSUFFICIENT", "NO-GO", "CAUTION", "GREEN"}
     /\ ret.status = "INSUFFICIENT" => ret.grade = "N/A"
     /\ ret.status = "NO-GO" => ret.grade = "D"
     /\ ret.status = "CAUTION" => ret.grade = "C+"
     /\ ret.status = "GREEN" => ArgIncome > 0 /\ ret.grade = GreenGrade

\* A GREEN verdict with housing between 28% and 30% of income: grade B+.
C5_Witness ==
  /\ Returned("computeVerdict")
  /\ ret.status = "GREEN"
  /\ ret.grade = "B+"
  /\ ArgHousing * 100 > 28 * ArgIncome

\* The status pickNextAction reads: "none" when there is no verdict.
ArgStatus == IF args.verdict = Null THEN "none" ELSE args.verdict.status

\* missing_inputs is a non-empty list.
HasMissing == args.missing_inputs.t = "array" /\ args.missing_inputs.v # <<>>

\* price > 0, housingAllIn > 0 and verdict.housingCap are all finite.
FullData ==
  /\ IsFinite(args.price) /\ args.price.v > 0
  /\ IsFinite(args.housingAllIn) /\ args.housingAllIn.v > 0
  /\ IsFinite(args.verdict.housingCap)

\* C6: pickNextAction returns one action fixed by the verdict status:
\* INSUFFICIENT or no verdict gives collect_missing_inputs, with the missing
\* list as target when it is non-empty and a null target when it is empty;
\* NO-GO gives lower_price with full price and housing data and
\* adjust_scenario with a null target otherwise; CAUTION gives
\* increase_buffer and GREEN gives lock_in_plan, both with a null target.
C6_ActionByStatus ==
  Returned("pickNextAction")
  => /\ ArgStatus \in {"none", "INSUFFICIENT"}
        => /\ ret.type = "collect_missing_inputs"
           /\ ret.target = IF HasMissing THEN [missing |-> args.missing_inputs.v]
                                         ELSE Null
     /\ ArgStatus = "NO-GO"
        => IF FullData
           THEN ret.type = "lower_price" /\ ret.target # Null
           ELSE ret.type = "adjust_scenario" /\ ret.target = Null
     /\ ArgStatus = "CAUTION" => ret.type = "increase_buffer" /\ ret.target = Null
     /\ ArgStatus = "GREEN" => ret.type = "lock_in_plan" /\ ret.target = Null

\* A NO-GO verdict with a positive housing cost and no price: adjust_scenario.
C6_Witness ==
  /\ Returned("pickNextAction")
  /\ ArgStatus = "NO-GO"
  /\ IsFinite(args.housingAllIn) /\ args.housingAllIn.v > 0
  /\ ~IsFinite(args.price)
  /\ ret.type = "adjust_scenario"

\* C7: whenever the next action for a verdict of computeVerdict is
\* lower_price, target_price <= current_price.
C7_LowerPriceLowers ==
  (/\ Returned("pickNextAction")
   /\ args.origin = "computeVerdict"
   /\ ret.type = "lower_price")
  => ret.target.target_price <= ret.target.current_price

\* null or undefined.
Absent(x) == x.t \in {"null", "undefined"}

\* C8: estimateAllInHousing returns {ok:false, reason} and nothing else
\* whenever price is missing or <= 0, downpayment is missing or < 0, or
\* creditScore is missing or outside [300,850].
C8_FailsOnMissingOrInvalid ==
  (/\ Returned("estimateAllInHousing")
   /\ \/ Absent(args.price) \/ args.price.v <= 0
      \/ Absent(args.downpayment) \/ args.downpayment.v < 0
      \/ Absent(args.creditScore)
      \/ args.creditScore.v < 300 \/ args.creditScore.v > 850)
  => ~ret.ok /\ DOMAIN ret = {"ok", "reason"}

\* C9 as stated: estimateAllInHousing returns ok:true only if its
\* all_in_monthly is greater than 0.
C9_EstimateOkOnlyIfPositive ==
  (Returned("estimateAllInHousing") /\ ret.ok) => ret.all_in_monthly > 0

EstimateReasons ==
  {"Missing or invalid price.", "Missing or invalid downpayment.",
   "Missing or invalid creditScore.", "Unable to compute P&I."}

\* C9 amended: estimateAllInHousing returns ok:true only if the loan and so
\* the principal-and-interest payment is greater than 0, and a failure with
\* a reason otherwise; the handler keeps an estimate as its mortgage only if
\* the all_in_monthly is greater than 0 as well, and otherwise reports a
\* failure with a reason and no housing cost.
C9_MortgageOkOnlyIfPositive ==
  /\ Returned("estimateAllInHousing")
     => IF ret.ok
        THEN ret.loan_amount > 0 /\ ret.breakdown.principal_interest >= 0
        ELSE ret.reason \in EstimateReasons
  /\ (Returned("mortgageStage") /\ ret.mortgage # Null)
     => IF ret.mortgage.ok
        THEN /\ ret.mortgage.all_in_monthly > 0
             /\ ret.housingAllIn = Num(ret.mortgage.all_in_monthly)
        ELSE /\ ret.mortgage.reason \in EstimateReasons \cup {"Mortgage estimate failed."}
             /\ ret.housingAllIn = Null

\* The handler turns an ok estimate that is not positive into a failure.
C9_Witness ==
  /\ Returned("mortgageStage")
  /\ ret.mortgage # Null
  /\ ~ret.mortgage.ok
  /\ ret.mortgage.reason = "Mortgage estimate failed."
  /\ ret.housingAllIn = Null

\* The tier of the claim for a score that is a number other than 0.
TierOf(score) ==
  IF score >= 780 THEN 625
  ELSE IF score >= 740 THEN 675
  ELSE IF score >= 700 THEN 725
  ELSE IF score >= 660 THEN 800
  ELSE 900

\* C10: aprTierFromScore is a non-increasing step function: for scores
\* a < b, apr(b) <= apr(a); the tiers are 0.0625 from 780, 0.0675 from 740,
\* 0.0725 from 700, 0.08 from 660 and 0.09 below; a missing score gives
\* 0.07 and no score gives 0.07 otherwise.  (Scores are numbers other than
\* 0: the code takes a score of 0 as missing.)
C10_AprTierMonotone ==
  Returned("aprTierFromScore")
  => /\ (Present(args.a) /\ Present(args.b) /\ args.a.v < args.b.v) => ret.b <= ret.a
     /\ Present(args.a) => ret.a = TierOf(args.a.v)
     /\ Missing(args.a) => ret.a = 700
     /\ ret.a = 700 => ~Present(args.a)

\* Scores 760 and 780 fall in different tiers, the higher score the lower.
C10_Witness ==
  /\ Returned("aprTierFromScore")
  /\ args.a = Num(760) /\ args.b = Num(780)
  /\ ret.a = 675 /\ ret.b = 625

\* q is Math.round(n/d), for d > 0.
IsRound(q, n, d) == 2 * d * q <= 2 * n + d /\ 2 * n + d < 2 * d * (q + 1)

\* The two rails of the claim for the income of the call: round(income*0.30)
\* and round(income*0.30/1.28).
QuickRailsOfIncome ==
  /\ ret # Null
  /\ IsRound(ret.housing_cap_monthly, 30 * Numer(args.income), 100 * Denom(args.income))
  /\ IsRound(ret.pi_target_monthly, 30 * Numer(args.income), 128 * Denom(args.income))

\* C11 as stated: buildQuickAffordability returns null when income is missing
\* or non-finite, and for every other income a record with
\* housing_cap_monthly = round(income*0.30) and pi_target_monthly =
\* round(income*0.30/1.28).
C11_QuickRailsForEveryFiniteIncome ==
  Returned("buildQuickAffordability")
  => IF IsFiniteNumber(args.income) THEN QuickRailsOfIncome ELSE ret = Null

\* C11 amended: buildQuickAffordability returns null when income is missing,
\* non-finite or 0, and for every other income, negative included, a record
\* with housing_cap_monthly = round(income*0.30) and pi_target_monthly =
\* round(income*0.30/1.28), whatever the apr and the term (price,
\* downpayment, taxRate, insuranceAnnual and hoaMonthly are no inputs of it).
C11_QuickRailsForNonzeroIncome ==
  Returned("buildQuickAffordability")
  => IF IsFiniteNumber(args.income) /\ Numer(args.income) # 0
     THEN QuickRailsOfIncome
     ELSE ret = Null

\* Income 6000 gives the rails 1800 and 1406.
C11_Witness ==
  /\ Returned("buildQuickAffordability")
  /\ args.income = Num(6000)
  /\ ret # Null
  /\ ret.housing_cap_monthly = 1800
  /\ ret.pi_target_monthly = 1406

\* The call derived a positive principal: both quick prices are reported.
QuickPricesReported ==
  /\ Returned("buildQuickAffordability")
  /\ ret # Null
  /\ ret.quick_max_price.price_0_down # Null

\* C12 as stated: whenever buildQuickAffordability derives a positive
\* principal, price_5_down is strictly greater than price_0_down.
C12_FiveDownStrictlyGreater ==
  QuickPricesReported
  => ret.quick_max_price.price_5_down.v > ret.quick_max_price.price_0_down.v

\* C12 amended: whenever buildQuickAffordability derives a positive
\* principal, price_5_down is at least price_0_down, and strictly greater
\* whenever price_0_down is 20 dollars or more; below that the two, each
\* rounded to whole dollars, can be equal.
C12_FiveDownAtLeast ==
  QuickPricesReported
  => /\ IsFinite(ret.quick_max_price.price_5_down)
     /\ ret.quick_max_price.price_5_down.v >= ret.quick_max_price.price_0_down.v
     /\ ret.quick_max_price.price_0_down.v >= 20
        => ret.quick_max_price.price_5_down.v > ret.quick_max_price.price_0_down.v

\* Income 6000 over 40 years: price_5_down exceeds price_0_down by thousands.
C12_Witness ==
  /\ QuickPricesReported
  /\ args.income = Num(6000)
  /\ args.termYears = Num(40)
  /\ ret.quick_max_price.price_0_down.v > 100000
  /\ ret.quick_max_price.price_5_down.v > ret.quick_max_price.price_0_down.v + 5000

\* A value that provides a finite number: a number, or a string spelling one.
Provides(v) == v.t \in {"num", "ratio", "str"}

RECURSIVE FirstProvided(_)
\* The number of the first value that provides one; null when none does.
FirstProvided(vals) ==
  IF vals = <<>> THEN Null
  ELSE IF Provides(Head(vals)) THEN ToNumber(Head(vals))
  ELSE FirstProvided(Tail(vals))

\* The snapshot object of a body, with no field set when there is none.
SnapshotOf(b) ==
  LET fad == FirstObject(<<b.ctxFad, b.fad, b.fad_snapshot, b.snapshot>>)
  IN  IF fad = Null THEN EmptyObject(FadFields) ELSE fad

\* The places of a field in a body in the order of precedence: overrides,
\* snapshot (with its aliases), baseline scenario (with its aliases).
PriceSourcesOf(b) ==
  <<b.overrides.price,
    SnapshotOf(b).price, SnapshotOf(b).homePrice, SnapshotOf(b).projected_home_price,
    SnapshotOf(b).housingPrice,
    b.scenario.price, b.scenario.homePrice>>

DownpaymentSourcesOf(b) ==
  <<b.overrides.downpayment,
    SnapshotOf(b).downpayment, SnapshotOf(b).dpAmt, SnapshotOf(b).down,
    SnapshotOf(b).currentSavings, SnapshotOf(b).savings,
    b.scenario.downpayment, b.scenario.dpAmt>>

IncomeSourcesOf(b) ==
  <<b.overrides.income,
    SnapshotOf(b).income, SnapshotOf(b).monthlyIncome, SnapshotOf(b).monthly_income,
    SnapshotOf(b).totalIncome,
    b.scenario.income, b.scenario.monthlyIncome>>

ScoreSourcesOf(b) ==
  <<b.overrides.creditScore,
    SnapshotOf(b).creditScore, SnapshotOf(b).credit_score, SnapshotOf(b).score,
    SnapshotOf(b).scoreValue,
    b.scenario.creditScore, b.scenario.score>>

TermSourcesOf(b) ==
  <<b.overrides.termYears,
    SnapshotOf(b).termYears, SnapshotOf(b).term_years, SnapshotOf(b).term,
    b.scenario.termYears>>

PriceSources == PriceSourcesOf(args)

IncomeSources == IncomeSourcesOf(args)

ScoreSources == ScoreSourcesOf(args)

TermSources == TermSourcesOf(args)

\* C16: buildScenario resolves each numeric field from the highest-precedence
\* source that provides it as a finite number, in the order overrides,
\* snapshot, baseline scenario, and to null (the term to its default 30)
\* only when no source provides one.  Stated for price, income and the term.
C16_HighestSourceWins ==
  (Returned("buildScenario") /\ args # Null)
  => /\ ret.price = FirstProvided(PriceSources)
     /\ ret.income = FirstProvided(IncomeSources)
     /\ FirstProvided(TermSources) = Null => ret.termYears = Num(30)

\* Some source holds a number as credit score; one in [300,850].
NumericScorePresent == \E i \in DOMAIN ScoreSources : Provides(ScoreSources[i])

InRangeScorePresent ==
  \E i \in DOMAIN ScoreSources :
     /\ Provides(ScoreSources[i])
     /\ 300 * Denom(ToNumber(ScoreSources[i])) <= Numer(ToNumber(ScoreSources[i]))
     /\ Numer(ToNumber(ScoreSources[i])) <= 850 * Denom(ToNumber(ScoreSources[i]))

\* C17: the credit score parsed from the question is used as the modeled
\* score if and only if no numeric credit score is present in overrides,
\* snapshot or baseline scenario; when used it lies in [300,850] and its
\* source is question_hypothetical.  (The "only if" is stated for a numeric
\* score in [300,850].)
C17_QuestionScoreOnlyWithoutNumeric ==
  (/\ Returned("buildScenario")
   /\ args # Null
   /\ parseHypotheticalCreditScoreFromQuestion(args.question) # Null)
  => /\ ~NumericScorePresent
        => /\ ret.creditScoreSource = "question_hypothetical"
           /\ ret.creditScore = parseHypotheticalCreditScoreFromQuestion(args.question)
           /\ ret.creditScore.v \in 300..850
     /\ InRangeScorePresent => ret.creditScoreSource # "question_hypothetical"

\* null or a finite number.
FiniteOrNull(v) == v = Null \/ IsFiniteNumber(v)

\* No place of the request sets a term.
NoTermSupplied == args = Null \/ \A i \in DOMAIN TermSources : ~IsSet(TermSources[i])

\* C18: every scenario buildScenario returns is well formed, for any body:
\* price, expenses, downpayment, income, taxRate, insuranceAnnual and
\* hoaMonthly are each a finite number or null; creditScore is null or an
\* integer in [300,850]; termYears is an integer in [10,40], and 30 when no
\* term is supplied.
C18_ScenarioWellFormed ==
  Returned("buildScenario")
  => /\ \A f \in {"price", "expenses", "downpayment", "income", "taxRate",
                   "insuranceAnnual", "hoaMonthly"} : FiniteOrNull(ret[f])
     /\ \/ ret.creditScore = Null
        \/ IsFinite(ret.creditScore) /\ ret.creditScore.v \in 300..850
     /\ IsFinite(ret.termYears) /\ ret.termYears.v \in 10..40
     /\ NoTermSupplied => ret.termYears = Num(30)

\* A score of 851 and a term of 45 are clamped to 850 and 40, while the
\* price given as text resolves to null.
C18_Witness ==
  /\ Returned("buildScenario")
  /\ args # Null
  /\ args.overrides.creditScore = Num(851)
  /\ args.overrides.termYears = Num(45)
  /\ args.overrides.price = TextStr
  /\ ret.creditScore = Num(850)
  /\ ret.termYears = Num(40)
  /\ ret.price = Null

\* A POST request has been answered from a body that parsed to an object.
Posted ==
  /\ Returned("handler")
  /\ args.httpMethod = "POST"
  /\ safeJsonParse(args.body) # Null

\* The parsed body of the request.
Body == safeJsonParse(args.body)

\* A body that carries no financial input: nothing in overrides (but,
\* possibly, a state), nothing in the baseline scenario, no snapshot or an
\* empty one, no question and no context profile.
NoFinancialInputs(b) ==
  /\ [b.overrides EXCEPT !.state = Undef] = EmptyObject(OverrideFields)
  /\ b.scenario = EmptyObject(ScenarioFields)
  /\ SnapshotOf(b) = EmptyObject(FadFields)
  /\ b.question = Null
  /\ b.contextProfile = Null

\* C13: a POST request that carries no financial inputs at all (no body, an
\* empty body, a body that is no JSON, or an empty object) is answered with
\* status 200 and ok true, verdict.status INSUFFICIENT, a non-empty
\* missing_inputs list, and the next action collect_missing_inputs whose
\* target lists exactly those missing inputs.
C13_NoInputsIsInsufficient ==
  (Posted /\ NoFinancialInputs(Body))
  => /\ ret.statusCode = 200
     /\ ret.payload.ok
     /\ ret.payload.verdict.status = "INSUFFICIENT"
     /\ ret.payload.missing_inputs # <<>>
     /\ ret.payload.next_action.type = "collect_missing_inputs"
     /\ ret.payload.next_action.target = [missing |-> ret.payload.missing_inputs]

\* The request with no body at all: creditScore is listed as missing.
C13_Witness ==
  /\ Posted
  /\ args.body = Undef
  /\ NoFinancialInputs(Body)
  /\ ret.statusCode = 200
  /\ ret.payload.verdict.status = "INSUFFICIENT"
  /\ ret.payload.missing_inputs = <<"creditScore">>
  /\ ret.payload.next_action.target = [missing |-> <<"creditScore">>]

\* name is an entry of the list.
Listed(name, list) == \E i \in DOMAIN list : list[i] = name

\* No place of the body provides a number for the field.
NotProvided(sources) == FirstProvided(sources) = Null

\* The number the body provides for the field is below lo (in units).
ProvidedBelow(sources, lo) ==
  /\ ~NotProvided(sources)
  /\ Numer(FirstProvided(sources)) < lo * Denom(FirstProvided(sources))

\* The number the body provides for the field is above hi (in units).
ProvidedAbove(sources, hi) ==
  /\ ~NotProvided(sources)
  /\ Numer(FirstProvided(sources)) > hi * Denom(FirstProvided(sources))

\* C14: in every response, each required scalar among price, downpayment,
\* creditScore and income that is absent from the request or out of range
\* (price <= 0, downpayment < 0, creditScore outside [300,850]) appears by
\* name in missing_inputs.
C14_AbsentOrInvalidScalarsListed ==
  (Posted /\ ret.statusCode = 200)
  => /\ (NotProvided(PriceSourcesOf(Body)) \/ ProvidedBelow(PriceSourcesOf(Body), 1))
        => Listed("price", ret.payload.missing_inputs)
     /\ (NotProvided(DownpaymentSourcesOf(Body))
         \/ ProvidedBelow(DownpaymentSourcesOf(Body), 0))
        => Listed("downpayment", ret.payload.missing_inputs)
     /\ (\/ /\ NotProvided(ScoreSourcesOf(Body))
            /\ parseHypotheticalCreditScoreFromQuestion(Body.question) = Null
         \/ ProvidedBelow(ScoreSourcesOf(Body), 300)
         \/ ProvidedAbove(ScoreSourcesOf(Body), 850))
        => Listed("creditScore", ret.payload.missing_inputs)
     /\ (/\ NotProvided(IncomeSourcesOf(Body))
         /\ FieldOf(Body.contextProfile, "income") \in {Null, Undef}
         /\ FieldOf(Body.contextProfile, "monthly_income") \in {Null, Undef})
        => Listed("income", ret.payload.missing_inputs)

\* A response is a full payload of the POST branch.
IsPostPayload(resp) == resp.statusCode = 200 /\ "ts" \in DOMAIN resp.payload

\* The response without its two metadata fields ts and scenario_id.
WithoutMetadata(resp) ==
  IF IsPostPayload(resp)
  THEN [resp EXCEPT !.payload.ts = 0, !.payload.scenario_id = <<>>]
  ELSE resp

\* The response without ts, scenario_id and the three cached flags of
\* knowledge_used.
WithoutMetadataAndCachedFlags(resp) ==
  IF IsPostPayload(resp)
  THEN [resp EXCEPT !.payload.ts = 0,
                    !.payload.scenario_id = <<>>,
                    !.payload.knowledge_used.basics.cached = FALSE,
                    !.payload.knowledge_used.realtysass.cached = FALSE,
                    !.payload.knowledge_used.state.cached = FALSE]
  ELSE resp

\* C15 as stated: two invocations of the handler with the identical request
\* and the identical lookup result, the data files unchanged, return
\* payloads identical in every field except ts and scenario_id, whatever was
\* served before them.
C15_IdenticalExceptTsAndId ==
  \A i, j \in DOMAIN served :
     served[i].event = served[j].event
     => WithoutMetadata(served[i].response) = WithoutMetadata(served[j].response)

\* C15, amended: two such invocations return payloads identical in every
\* field except ts, scenario_id and the cached flags of knowledge_used.
C15_IdenticalExceptTsIdAndCachedFlags ==
  \A i, j \in DOMAIN served :
     served[i].event = served[j].event
     => WithoutMetadataAndCachedFlags(served[i].response)
        = WithoutMetadataAndCachedFlags(served[j].response)

\* The same POST request served cold and then warm, a second apart: the
\* knowledge is the same, read from disk the first time and from the cache
\* the second.
C15_Witness ==
  \E i, j \in DOMAIN served :
     /\ i < j
     /\ served[i].event = served[j].event
     /\ IsPostPayload(served[i].response)
     /\ served[i].response.payload.ts # served[j].response.payload.ts
     /\ served[i].response.payload.knowledge_used.basics.ok
     /\ ~served[i].response.payload.knowledge_used.basics.cached
     /\ served[j].response.payload.knowledge_used.basics.cached
     /\ served[i].response.payload.knowledge = served[j].response.payload.knowledge
     /\ served[i].response.payload.verdict = served[j].response.payload.verdict

\* estimateAllInHousing was called with a price and a downpayment it accepts.
EstimatorGivenValidPrice ==
  /\ Returned("estimateAllInHousing")
  /\ IsFinite(args.price) /\ args.price.v > 0
  /\ IsFinite(args.downpayment) /\ args.downpayment.v >= 0
  /\ args.downpayment.v < args.price.v

\* A POST request without a snapshot whose baseline scenario sets a valid
\* price and downpayment and whose credit score, s, is supplied as a number.
SuppliesScore(s) ==
  /\ Posted
  /\ FirstObject(<<Body.ctxFad, Body.fad, Body.fad_snapshot, Body.snapshot>>) = Null
  /\ Body.scenario.price = Num(400000)
  /\ Body.scenario.downpayment = Num(80000)
  /\ FirstProvided(ScoreSourcesOf(Body)) = Num(s)

\* The response carries a mortgage estimate.
Estimated == ret.payload.mortgage.source = "deterministic_estimate"

\* The estimator accepts the scores 300 and 850 and rejects 299 and 851.
EstimatorBoundaryScores ==
  EstimatorGivenValidPrice
  => /\ args.creditScore \in {Num(300), Num(850)} => ret.ok
     /\ args.creditScore \in {Num(299), Num(851)}
        => ret = Failure("Missing or invalid creditScore.")

\* C19 as stated: credit scores 300 and 850 are accepted and produce a
\* mortgage estimate, while a request whose supplied creditScore is 851 or
\* 299 is rejected or ignored as invalid: no mortgage estimate is computed
\* from that supplied score.
C19_OutOfRangeScoreRejected ==
  /\ EstimatorBoundaryScores
  /\ \A s \in {300, 850} :
        SuppliesScore(s) => Estimated /\ ret.payload.inputs_used.creditScore = Num(s)
  /\ \A s \in {299, 851} : SuppliesScore(s) => ~Estimated

\* C19, amended: the scores 300 and 850 are accepted and produce a mortgage
\* estimate; estimateAllInHousing itself rejects 299 and 851; a request
\* whose supplied creditScore is 851 or 299 is answered with the mortgage
\* estimate for the score clamped into [300,850], that is for 850 or 300.
C19_OutOfRangeScoreClamped ==
  /\ EstimatorBoundaryScores
  /\ \A s \in {299, 300, 850, 851} :
        SuppliesScore(s)
        => /\ Estimated
           /\ ret.payload.inputs_used.creditScore = Num(clamp(s, 300, 850))
           /\ ret.payload.mortgage.apr_assumed
              = Num(aprTierFromScore(Num(clamp(s, 300, 850))))

\* A request with creditScore 851 is answered with the estimate for 850, at
\* the best tier's rate.
C19_Witness ==
  /\ SuppliesScore(851)
  /\ Body.scenario.creditScore = Num(851)
  /\ Estimated
  /\ ret.payload.inputs_used.creditScore = Num(850)
  /\ ret.payload.mortgage.apr_assumed = Num(625)
  /\ ret.payload.mortgage.all_in_monthly.v > 0

\* inputs_used.sources.creditScore of the response.
ScoreSourceReported == ret.payload.inputs_used.sources.creditScore

\* C20: inputs_used.sources.creditScore is always one of overrides,
\* snapshot, scenario, question_hypothetical or missing, and it names the
\* source the credit score actually used was taken from: overrides only
\* when overrides.creditScore provides a number, scenario only when the
\* baseline scenario provides one, question_hypothetical only when the used
\* score is the one parsed from the question, missing only when no score is
\* used.
C20_ScoreSourceNamesOrigin ==
  (Posted /\ ret.statusCode = 200)
  => /\ ScoreSourceReported
        \in {"overrides", "snapshot", "scenario", "question_hypothetical", "missing"}
     /\ ScoreSourceReported = "overrides" => Provides(Body.overrides.creditScore)
     /\ ScoreSourceReported = "scenario"
        => Provides(Body.scenario.creditScore) \/ Provides(Body.scenario.score)
     /\ ScoreSourceReported = "question_hypothetical"
        => ret.payload.inputs_used.creditScore
           = parseHypotheticalCreditScoreFromQuestion(Body.question)
     /\ ScoreSourceReported = "missing" <=> ret.payload.inputs_used.creditScore = Null

\* The source is "overrides" although overrides.creditScore is the empty
\* string and the score used, 760, is the baseline scenario's.
C20_MistaggedOverrides ==
  /\ Posted
  /\ Body.overrides.creditScore = EmptyStr
  /\ Body.scenario.creditScore = Num(760)
  /\ ret.payload.inputs_used.creditScore = Num(760)
  /\ ScoreSourceReported = "overrides"

\* The literal values outside the documented set: "fad" for a score of the
\* snapshot, "scenario/overrides" for scenario.score.
C20_UndocumentedValues ==
  Posted /\ ret.statusCode = 200 /\ ScoreSourceReported \in {"fad", "scenario/overrides"}

\* The worked example of the estimate: 400000 with 40000 down, score 760,
\* 30 years, tax rate 0.02, insurance 2400 a year, no HOA.
WorkedEstimateArgs ==
  [price |-> Num(400000), downpayment |-> Num(40000), creditScore |-> Num(760),
   termYears |-> Num(30), taxRate |-> Num(200), insuranceAnnual |-> Num(2400),
   hoaMonthly |-> Num(0)]

\* C21: for price 400000, downpayment 40000, creditScore 760, termYears 30,
\* taxRate 0.02, insuranceAnnual 2400 and hoaMonthly 0, estimateAllInHousing
\* returns ok:true with loan_amount 360000, apr_assumed 0.0675, the breakdown
\* principal_interest 2335, taxes 667, insurance 200, hoa 0, and
\* all_in_monthly 3202.
C21_WorkedEstimate ==
  (Returned("estimateAllInHousing") /\ args = WorkedEstimateArgs)
  => /\ ret.ok
     /\ ret.loan_amount = 360000
     /\ ret.apr_assumed = 675
     /\ ret.breakdown = [principal_interest |-> 2335, taxes |-> 667,
                         insurance |-> 200, hoa |-> 0]
     /\ ret.all_in_monthly = 3202

\* The call of the worked example has returned its estimate.
C21_Witness ==
  /\ Returned("estimateAllInHousing")
  /\ args = WorkedEstimateArgs
  /\ ret.ok
  /\ ret.term_years = 30
  /\ ret.all_in_monthly = 3202

\* The worked example of the verdict: income 6000, expenses 1500 and the
\* all-in housing cost 3202.
WorkedVerdictArgs ==
  [income |-> Num(6000), expenses |-> Num(1500), housingAllIn |-> Num(3202)]

\* pickNextAction was called for the worked example's verdict and the price
\* 400000.
WorkedActionCall ==
  /\ Returned("pickNextAction")
  /\ args.origin = "computeVerdict"
  /\ args.income = Num(6000)
  /\ args.expenses = Num(1500)
  /\ args.housingAllIn = Num(3202)
  /\ args.price = Num(400000)

\* C22: for income 6000, expenses 1500, housingAllIn 3202 and price 400000,
\* computeVerdict returns status NO-GO, grade D, housingCap 1800 and residual
\* 1298, and pickNextAction returns lower_price with target_price 225000,
\* that is price*(housingCap/housingAllIn) rounded to the nearest 1000.
C22_WorkedVerdictAndAction ==
  /\ (Returned("computeVerdict") /\ args = WorkedVerdictArgs)
     => /\ ret.status = "NO-GO"
        /\ ret.grade = "D"
        /\ ret.housingCap = Num(1800)
        /\ ret.residual = Num(1298)
  /\ WorkedActionCall
     => /\ args.verdict.status = "NO-GO"
        /\ args.verdict.housingCap = Num(1800)
        /\ ret.type = "lower_price"
        /\ ret.target.target_price = 225000
        /\ ret.target.current_price = 400000
        /\ (ret.target.target_price - 500) * 3202 <= 400000 * 1800
        /\ 400000 * 1800 < (ret.target.target_price + 500) * 3202

\* pickNextAction has answered the worked example with lower_price and the
\* cap 1800 as target.
C22_Witness ==
  /\ WorkedActionCall
  /\ args.verdict.grade = "D"
  /\ args.verdict.residual = Num(1298)
  /\ ret.type = "lower_price"
  /\ ret.target.target_housing_cap = 1800

\* computeVerdict has answered the worked example.
C22_VerdictReturned ==
  /\ Returned("computeVerdict")
  /\ args = WorkedVerdictArgs
  /\ ret.status = "NO-GO"

\* The response reports an income that is a positive number.
PositiveIncomeUsed ==
  /\ IsFiniteNumber(ret.payload.inputs_used.income)
  /\ Numer(ret.payload.inputs_used.income) > 0

\* C23: whenever the income is present and positive but the mortgage
\* estimate is unavailable (inputs missing, or the estimate failed), the
\* response still holds a non-null quick record with housing_cap_monthly =
\* round(0.30*income), computed at the default APR 0.07 when no score is
\* known; the mortgage failure is reported inline in mortgage.error, with
\* no all-in amount; and verdict.status is INSUFFICIENT.
C23_QuickRailsWithoutMortgage ==
  (Posted /\ ret.statusCode = 200 /\ PositiveIncomeUsed /\ ~Estimated)
  => /\ ret.payload.quick # Null
     /\ ret.payload.quick.housing_cap_monthly
        = Round(Numer(ret.payload.inputs_used.income) * 30,
                Denom(ret.payload.inputs_used.income) * 100)
     /\ ret.payload.inputs_used.creditScore = Null
        => ret.payload.quick.assumptions.apr_assumed = Num(700)
     /\ ret.payload.quick.quick_max_price.price_0_down # Null
     /\ ret.payload.mortgage.error # Null
     /\ ret.payload.mortgage.all_in_monthly = Null
     /\ ret.payload.verdict.status = "INSUFFICIENT"

\* The request with income 5000 and nothing else: the cap is 1500, the rate
\* 0.07, and the mortgage reports that its inputs are missing.
C23_Witness ==
  /\ Posted
  /\ Body = [EmptyBody EXCEPT
               !.scenario = [EmptyObject(ScenarioFields) EXCEPT !.income = Num(5000)]]
  /\ ret.payload.quick # Null
  /\ ret.payload.quick.housing_cap_monthly = 1500
  /\ ret.payload.quick.assumptions.apr_assumed = Num(700)
  /\ ret.payload.mortgage.source = "insufficient_inputs_for_mortgage"
  /\ ret.payload.mortgage.error = Text("Mortgage estimate unavailable (missing inputs).")
  /\ ret.payload.verdict.status = "INSUFFICIENT"

\* A request with a positive income whose estimate was attempted and failed.
C23_FailedEstimateReached ==
  /\ Posted
  /\ PositiveIncomeUsed
  /\ ret.payload.mortgage.source = "deterministic_estimate:failed"
  /\ ret.payload.quick # Null

\* C24: for every POST request, whatever its body (absent, malformed JSON,
\* or any JSON value including null), the handler returns status 200 with a
\* payload that holds ok:true, missing_inputs, mortgage, verdict and
\* next_action, and never throws.
C24_PostAlwaysAnswered ==
  (Returned("handler") /\ args.httpMethod = "POST")
  => /\ ret.statusCode = 200
     /\ ret.payload.ok
     /\ {"missing_inputs", "mortgage", "verdict", "next_action"}
        \subseteq DOMAIN ret.payload

\* The POST request whose body is the JSON text null: the handler throws.
C24_NullBodyThrows ==
  /\ Returned("handler")
  /\ args.httpMethod = "POST"
  /\ args.body = JsonText(Null)
  /\ ret.statusCode = 500

\* The five results of a response's payload that the math decides; the whole
\* response when it is no payload of the POST branch.
MathOf(resp) ==
  IF IsPostPayload(resp)
  THEN [quick |-> resp.payload.quick,
        mortgage |-> resp.payload.mortgage,
        verdict |-> resp.payload.verdict,
        missing_inputs |-> resp.payload.missing_inputs,
        next_action |-> resp.payload.next_action]
  ELSE resp

\* What the handler answers to the event alone on a fresh instance.
AloneResponse(event) == handler(event, Null, Null, <<>>, disk, clock).response

\* C25: concurrent invocations do not interfere: when requests are
\* interleaved at the profile-lookup await and share the module-level
\* caches, the quick, mortgage, verdict, missing_inputs and next_action of
\* each request equal what that request gets when it runs alone.
C25_ConcurrentAsAlone ==
  \A i \in 1..MaxRequests :
     pc[i] = "done" => MathOf(ret[i]) = MathOf(AloneResponse(args[i]))

\* Two requests for Texas were both suspended at the lookup; the one
\* answered first read the state file, the other found it in the cache, and
\* both got their mortgage estimate with the state's tax rate.
C25_Witness ==
  /\ \A i \in 1..MaxRequests : pc[i] = "done"
  /\ Len(served) >= 2
  /\ served[1].suspended # {}
  /\ IsPostPayload(served[1].response)
  /\ IsPostPayload(served[2].response)
  /\ ~served[1].response.payload.knowledge_used.state.cached
  /\ served[2].response.payload.knowledge_used.state.cached
  /\ served[1].response.payload.mortgage.source = "deterministic_estimate"
  /\ served[2].response.payload.mortgage.source = "deterministic_estimate"
  /\ served[2].response.payload.mortgage.assumptions_used.taxRate = 180
  /\ served[1].event # served[2].event

\* C26: computeVerdict never returns the grade B: every GREEN verdict has a
\* grade in {A, A-, B+}, because GREEN already implies housingAllIn <=
\* 0.30*income and residual >= 0.05*income.
C26_GradeBUnreachable ==
  Returned("computeVerdict")
  => /\ ret.grade # "B"
     /\ ret.status = "GREEN"
        => /\ ret.grade \in {"A", "A-", "B+"}
           /\ args.housingAllIn.v * 100 <= args.income.v * 30
           /\ ret.residual.v * 100 >= args.income.v * 5

\* A GREEN verdict at the lowest grade there is: housing above 28% of the
\* income and at most 30%.
C26_Witness ==
  /\ Returned("computeVerdict")
  /\ ret.status = "GREEN"
  /\ ret.grade = "B+"
  /\ args.housingAllIn.v * 100 > args.income.v * 28
  /\ args.housingAllIn.v * 100 = args.income.v * 30

\* C27: in the handler a NO-GO verdict always yields the next action
\* lower_price, and adjust_scenario is never the next action: a NO-GO
\* verdict needs a positive housingAllIn, which exists only when the
\* estimate succeeded for a finite price > 0.
C27_NoGoMeansLowerPrice ==
  (Posted /\ ret.statusCode = 200)
  => /\ ret.payload.next_action.type # "adjust_scenario"
     /\ ret.payload.verdict.status = "NO-GO"
        => /\ ret.payload.next_action.type = "lower_price"
           /\ Estimated
           /\ ret.payload.mortgage.all_in_monthly.v > 0
           /\ IsFinite(ret.payload.inputs_used.price)
           /\ ret.payload.inputs_used.price.v > 0

\* A request answered NO-GO: 400000 with 80000 down on an income of 6000.
C27_Witness ==
  /\ Posted
  /\ ret.statusCode = 200
  /\ ret.payload.verdict.status = "NO-GO"
  /\ ret.payload.inputs_used.price = Num(400000)
  /\ ret.payload.inputs_used.income = Num(6000)
  /\ ret.payload.next_action.type = "lower_price"
  /\ ret.payload.next_action.target.current_price = 400000

\* The response carries a definite verdict.
DefiniteVerdict ==
  /\ Posted
  /\ ret.statusCode = 200
  /\ ret.payload.verdict.status \in {"GREEN", "CAUTION", "NO-GO"}

\* C28 as stated: in every response, if verdict.status is GREEN, CAUTION or
\* NO-GO then missing_inputs is empty.
C28_DefiniteVerdictNothingMissing ==
  DefiniteVerdict => ret.payload.missing_inputs = <<>>

\* C28, amended: in every response with a definite verdict, income, price,
\* downpayment and creditScore are not in missing_inputs; expenses is its
\* only possible entry, listed exactly when the expenses of the request are
\* no finite number, which the verdict counts as 0.
C28_DefiniteVerdictOnlyExpensesMissing ==
  DefiniteVerdict
  => /\ ret.payload.missing_inputs \in {<<>>, <<"expenses">>}
     /\ Listed("expenses", ret.payload.missing_inputs)
        <=> ret.payload.inputs_used.expenses = Null
     /\ ret.payload.inputs_used.expenses = Null
        => ret.payload.verdict.residual.v
           = ret.payload.inputs_used.income.v - ret.payload.mortgage.all_in_monthly.v

\* A GREEN verdict for a request whose expenses are a text that spells no
\* number: expenses is reported missing.
C28_Witness ==
  /\ DefiniteVerdict
  /\ Body.scenario.expenses = TextStr
  /\ ret.payload.verdict.status = "GREEN"
  /\ ret.payload.inputs_used.income = Num(12000)
  /\ ret.payload.missing_inputs = <<"expenses">>

\* C29: for price > 0, a valid creditScore and downpayment >= price (a loan
\* amount of 0), estimateAllInHousing returns ok:false with the reason
\* "Unable to compute P&I."; in the handler the verdict is then
\* INSUFFICIENT while price, downpayment and creditScore are all absent
\* from missing_inputs.
C29_NothingToFinance ==
  /\ (/\ Returned("estimateAllInHousing")
      /\ IsFinite(args.price) /\ args.price.v > 0
      /\ IsFinite(args.creditScore) /\ args.creditScore.v \in 300..850
      /\ IsFinite(args.downpayment) /\ args.downpayment.v >= args.price.v)
     => ret = Failure("Unable to compute P&I.")
  /\ (/\ Posted
      /\ ret.statusCode = 200
      /\ IsFinite(ret.payload.inputs_used.price)
      /\ ret.payload.inputs_used.price.v > 0
      /\ IsFinite(ret.payload.inputs_used.creditScore)
      /\ IsFinite(ret.payload.inputs_used.downpayment)
      /\ ret.payload.inputs_used.downpayment.v >= ret.payload.inputs_used.price.v)
     => /\ ret.payload.mortgage.source = "deterministic_estimate:failed"
        /\ ret.payload.mortgage.error = Text("Unable to compute P&I.")
        /\ ret.payload.verdict.status = "INSUFFICIENT"
        /\ \A name \in {"price", "downpayment", "creditScore"} :
              ~Listed(name, ret.payload.missing_inputs)

\* A request that pays the whole price of 400000 down, with an income of
\* 6000: INSUFFICIENT, and nothing is reported missing.
C29_Witness ==
  /\ Posted
  /\ ret.statusCode = 200
  /\ ret.payload.inputs_used.price = Num(400000)
  /\ ret.payload.inputs_used.downpayment = Num(400000)
  /\ ret.payload.inputs_used.creditScore = Num(760)
  /\ ret.payload.inputs_used.income = Num(6000)
  /\ ret.payload.mortgage.error = Text("Unable to compute P&I.")
  /\ ret.payload.verdict.status = "INSUFFICIENT"
  /\ ret.payload.missing_inputs = <<>>

\* estimateAllInHousing has refused a downpayment of the whole price.
C29_EstimatorReached ==
  /\ Returned("estimateAllInHousing")
  /\ IsFinite(args.price) /\ args.price.v > 0
  /\ args.downpayment = args.price
  /\ ret = Failure("Unable to compute P&I.")

\* Call j is the next call after call i for the same file.
NextLoadOfSameFile(i, j) ==
  /\ i < j
  /\ served[i].file = served[j].file
  /\ \A k \in DOMAIN served : (i < k /\ k < j) => served[k].file # served[i].file

\* C30: over any sequence of loadBasics, loadRealtySaSS and loadState
\* calls: once a load for a file (or normalized state key) has succeeded,
\* every later load for it returns ok:true, cached:true and the same data,
\* without reading the file again (whatever the file holds by then); a
\* failed load stores nothing in the cache, so the next load for it reads
\* the file again and returns cached:false, with what the file holds then.
C30_CacheAfterSuccessOnly ==
  \A i, j \in DOMAIN served :
     /\ (i < j /\ served[i].file = served[j].file /\ served[i].result.ok)
        => /\ served[j].result.ok
           /\ served[j].result.cached
           /\ served[j].result.data = served[i].result.data
     /\ (NextLoadOfSameFile(i, j) /\ ~served[i].result.ok)
        => /\ ~served[j].result.cached
           /\ served[j].result.ok <=> served[j].onDisk # Null
           /\ served[j].result.data = served[j].onDisk

\* The state file of Texas failed to load, loaded once the file was there,
\* and was then served from the cache after the file had changed again.
C30_Witness ==
  /\ Len(served) = 3
  /\ \A i \in 1..3 : served[i].file = <<"states", "texas">>
  /\ ~served[1].result.ok
  /\ served[2].result.ok /\ ~served[2].result.cached
  /\ served[3].result.ok /\ served[3].result.cached
  /\ served[3].result.data = served[2].result.data
  /\ served[3].result.data # served[3].onDisk

====
